---- MODULE Spec2Model ----
(***************************************************************************)
(* Model of the repository-state synchronization layer of sink:           *)
(*   - GitWatcher        (packages/server/src/services/watcher.ts)         *)
(*   - DiscoveryService  (packages/server/src/services/discovery.ts)       *)
(*   - RepoList          (packages/web/src/components/RepoList.tsx)        *)
(* Each subsystem has its own specification over its own variables; the    *)
(* variables of the other subsystems stay at their initial values.         *)
(***************************************************************************)
EXTENDS Integers, Sequences, FiniteSets, TLC

VARIABLES
    now,             \* wall clock in ms (Date.now(), timer clock)
    lastOp,          \* the handler that ran last: [op, id, hit, rep]
    \* ---- GitWatcher ----
    watchers,        \* Map<string, FSWatcher[]>: repo id -> number of open handles
    debounceTimers,  \* Map<string, Timeout>: repo id -> instant the timer is due
    trigs,           \* per repo: instants of the metadata triggers of this watch session
    emits,           \* per repo: instants of the 'change' events of this watch session
    \* ---- DiscoveryService ----
    browsing,        \* this.browser !== null
    advertised,      \* this.service !== null
    peers,           \* Map<string, Peer> in insertion order
    notes,           \* notifications emitted by the last browser handler
    \* ---- RepoList ----
    peersData,       \* usePeers().data: [loaded, peers]; self is SelfPeer
    localRepos,      \* useRepos(): [isLoading, error, hasData, data]
    peerRepos,       \* useState Map<peer id, RepoWithStatus[]>: the parsed bodies
    loadingPeers,    \* useState Set<peer id>
    selectedPeer,    \* the selected Peer, NoPeer for null (scope 'all')
    requests,        \* per peer id: the fetch() in flight, "pending" or "silent"
    fetchResult,     \* per peer id: how its last fetch ended
    \* ---- push channel (/ws endpoint of the server) ----
    clients,         \* Set<WebSocket>: the sockets the broadcast goes to
    readyState,      \* per socket: "NONE" (not yet accepted), "OPEN", "CLOSING", "CLOSED"
    frames,          \* per socket: the frames sent on it, in the order the observer receives them
    inFlight,        \* per repo id: the 'change' events whose handler awaits the git status
    changes,         \* per repo id: the number of 'change' events emitted so far
    \* ---- observer (useWebSocket; a connection c is the chain of sockets and
    \*      reconnect timers that the c-th run of the effect started) ----
    mounted,         \* the hook is alive
    gen,             \* the number of the current run of the effect
    chainTarget,     \* per connection: the peer its connect() closes over (NoPeer: local)
    phase,           \* per connection: "NEW", "CONNECTING", "OPEN", "CLOSING", "CLOSED"
    wsRef,           \* wsRef.current: the connection whose socket it holds, -1 for null
    reconnectRef,    \* reconnectTimeoutRef.current: the connection whose timer it holds, -1 for null
    timer,           \* per connection: the delay of its pending reconnect timer, 0 when none
    pingInterval,    \* the run of the effect whose ping interval is set, -1 when none
    reachable,       \* the servers accept connections
    \* ---- RepoScanner and the server's main ----
    started,         \* main has made the initial scan and started the watcher
    disk,            \* the ids of the repositories under the scan paths
    cachedRepos,     \* RepoScanner.cachedRepos, as the set of the repositories it names
    lastScan,        \* RepoScanner.lastScan
    manualRepos,     \* config.manualRepos, as loadConfig left it
    repoList         \* RepoScanner.cachedRepos, as the list of its RepoInfo records

watcherVars   == <<watchers, debounceTimers, trigs, emits>>
discoveryVars == <<browsing, advertised, peers, notes>>
listVars      == <<peersData, localRepos, peerRepos, loadingPeers, selectedPeer,
                   requests, fetchResult>>
channelVars   == <<clients, readyState, frames, inFlight, changes>>
observerVars  == <<mounted, gen, chainTarget, phase, wsRef, reconnectRef, timer,
                   pingInterval, reachable>>
scanVars == <<started, disk, cachedRepos, lastScan, manualRepos, repoList>>
vars == <<now, lastOp, watcherVars, discoveryVars, listVars, channelVars, observerVars, scanVars>>

(***************************************************************************)
(* Bounds of the model                                                     *)
(***************************************************************************)
MaxTime == 600
MaxTrig == 2
MaxPeers == 2
MaxFrames == 3
MaxInFlight == 2
MaxChanges == 2
MaxRetargets == 1
MaxScanTime == 60000

\* Amounts of time that may pass between two handlers.
Delays == {100, 200}

\* JS Map helpers: set and delete on a map held as a function.
Put(m, k, v) == [x \in (DOMAIN m) \cup {k} |-> IF x = k THEN v ELSE m[x]]
Del(m, k) == [x \in (DOMAIN m) \ {k} |-> m[x]]
EmptyMap == << >>

Min(S) == CHOOSE x \in S : \A y \in S : x <= y
Last(s) == s[Len(s)]

\* Ghost record of the last handler: its name, its argument, whether it
\* repeats the previous call, and an instant it found (hit): for unwatchRepo the
\* due instant of the timer it cancelled (-1 when it cancelled none), for the
\* discovery handlers the time of the call.
Op(op, id, hit) ==
    [op |-> op, id |-> id, hit |-> hit,
     rep |-> lastOp.op = op /\ lastOp.id = id]

Other == [op |-> "other", id |-> "", hit |-> -1, rep |-> FALSE]

(***************************************************************************)
(* GitWatcher                                                              *)
(***************************************************************************)
RepoIds == {"r1", "r2"}

debounceMs == 300

InitWatcher ==
    /\ watchers = EmptyMap
    /\ debounceTimers = EmptyMap
    /\ trigs = [r \in RepoIds |-> << >>]
    /\ emits = [r \in RepoIds |-> << >>]

InitDiscovery ==
    /\ browsing = FALSE
    /\ advertised = FALSE
    /\ peers = << >>
    /\ notes = << >>

InitList ==
    /\ peersData = [loaded |-> FALSE, peers |-> << >>]
    /\ localRepos = [isLoading |-> TRUE, error |-> FALSE, hasData |-> FALSE, data |-> << >>]
    /\ peerRepos = EmptyMap
    /\ loadingPeers = {}
    /\ selectedPeer = [id |-> "", name |-> "", host |-> "", port |-> 0]
    /\ requests = EmptyMap
    /\ fetchResult = EmptyMap

\* The connections the server can accept.
Sockets == {"s1", "s2"}

InitChannel ==
    /\ clients = {}
    /\ readyState = [s \in Sockets |-> "NONE"]
    /\ frames = [s \in Sockets |-> << >>]
    /\ inFlight = [r \in RepoIds |-> {}]
    /\ changes = [r \in RepoIds |-> 0]

\* The state after the App has mounted: the effect has called connect() and
\* set the ping interval.
InitObserver ==
    /\ mounted = TRUE
    /\ gen = 0
    /\ chainTarget = [c \in 0..MaxRetargets |-> [id |-> "", name |-> "", host |-> "", port |-> 0]]
    /\ phase = [c \in 0..MaxRetargets |-> IF c = 0 THEN "CONNECTING" ELSE "NEW"]
    /\ wsRef = 0
    /\ reconnectRef = -1
    /\ timer = [c \in 0..MaxRetargets |-> 0]
    /\ pingInterval = 0
    /\ reachable = TRUE

\* The scanner after construction, before main scans.
InitScanner ==
    /\ started = FALSE
    /\ disk = {}
    /\ cachedRepos = {}
    /\ lastScan = 0
    /\ manualRepos = << >>
    /\ repoList = << >>

Init ==
    /\ now = 0
    /\ lastOp = Other
    /\ InitWatcher
    /\ InitDiscovery
    /\ InitList
    /\ InitChannel
    /\ InitObserver
    /\ InitScanner

\* A timer that is due runs before any other callback of the same instant
\* (the timers phase of the event loop precedes the poll phase).
NoTimerDue == \A r \in DOMAIN debounceTimers : debounceTimers[r] > now

\* Mutation: the handles are closed but the key stays in the map.
UnwatchHandlesKeepsKey(w, repoId) == w

\* unwatchRepo on the handle map: close the handles and delete the key.
UnwatchHandles(w, repoId) == IF repoId \in DOMAIN w THEN Del(w, repoId) ELSE w

\* Mutation: the pending timer is left running.
UnwatchTimerForgets(t, repoId) == t

\* unwatchRepo on the timer map: clearTimeout and delete the key.
UnwatchTimer(t, repoId) == IF repoId \in DOMAIN t THEN Del(t, repoId) ELSE t

\* The session log of a repository ends when it is unwatched.
ResetLog(log, repoId) == [log EXCEPT ![repoId] = << >>]

\* The watcher state the methods below transform.
WatcherState == [w |-> watchers, t |-> debounceTimers, tr |-> trigs, em |-> emits]

\* unwatchRepo as a function of the watcher state.
Unwatch(st, repoId) ==
    [w  |-> UnwatchHandles(st.w, repoId),
     t  |-> UnwatchTimer(st.t, repoId),
     tr |-> ResetLog(st.tr, repoId),
     em |-> ResetLog(st.em, repoId)]

SetWatcherState(st) ==
    /\ watchers' = st.w
    /\ debounceTimers' = st.t
    /\ trigs' = st.tr
    /\ emits' = st.em

unwatchRepo(repoId) ==
    /\ NoTimerDue
    /\ SetWatcherState(Unwatch(WatcherState, repoId))
    /\ lastOp' = Op("unwatchRepo", repoId,
                    IF repoId \in DOMAIN debounceTimers THEN debounceTimers[repoId] ELSE -1)
    /\ UNCHANGED <<now, discoveryVars, listVars, channelVars, observerVars, scanVars>>

\* A second watchRepo that opens handles again.
WatchHandlesAgain(w, repoId, mainOk, refsOk) ==
    IF ~mainOk THEN w
    ELSE Put(w, repoId, (IF repoId \in DOMAIN w THEN w[repoId] ELSE 0) + (IF refsOk THEN 2 ELSE 1))

\* A failure that leaves the failed repository in the map, without handles.
WatchHandlesKeepsFailed(w, repoId, mainOk, refsOk) ==
    IF repoId \in DOMAIN w THEN w
    ELSE Put(w, repoId, IF ~mainOk THEN 0 ELSE IF refsOk THEN 2 ELSE 1)

\* watchRepo on the handle map. mainOk: watch(gitDir) did not throw;
\* refsOk: watch(gitDir/refs) did not throw.
WatchHandles(w, repoId, mainOk, refsOk) ==
    IF repoId \in DOMAIN w THEN w
    ELSE IF ~mainOk THEN w
    ELSE Put(w, repoId, IF refsOk THEN 2 ELSE 1)

\* What the calls of watchRepo for the ids of a list leave in the log: a
\* repository whose watch(gitDir) threw (console.warn), if there is one.
WatchOutcome(w, ids, failMain) ==
    IF (ids \cap failMain) \ DOMAIN w = {} THEN Other
    ELSE Op("watchFailed", CHOOSE r \in (ids \cap failMain) \ DOMAIN w : TRUE, -1)

\* A log entry without a time.
Logged(op, id) == [op |-> op, id |-> id, hit |-> -1, rep |-> FALSE]

\* The log keeps the watchRepo calls for a repository that is already
\* watched and has a pending timer, and the watchRepos calls that unwatch a
\* repository with a pending timer while another one keeps its own.
RepeatOutcome(repoId, otherwise) ==
    IF repoId \in DOMAIN watchers /\ repoId \in DOMAIN debounceTimers
    THEN Logged("watchRepo", repoId)
    ELSE otherwise

ReconcileOutcome(repos, otherwise) ==
    IF otherwise = Other /\ DOMAIN debounceTimers \ repos # {}
                         /\ DOMAIN debounceTimers \cap repos # {}
    THEN Logged("watchRepos", CHOOSE r \in DOMAIN debounceTimers \ repos : TRUE)
    ELSE otherwise

watchRepo(repoId, mainOk, refsOk) ==
    /\ NoTimerDue
    /\ watchers' = WatchHandles(watchers, repoId, mainOk, refsOk)
    /\ lastOp' = RepeatOutcome(repoId,
                     WatchOutcome(watchers, {repoId}, IF mainOk THEN {} ELSE {repoId}))
    /\ UNCHANGED <<now, debounceTimers, trigs, emits, discoveryVars, listVars, channelVars, observerVars, scanVars>>

\* The loop "for (const id of ids) this.unwatchRepo(id)".
RECURSIVE UnwatchEach(_, _)
UnwatchEach(st, ids) ==
    IF ids = {} THEN st
    ELSE LET id == CHOOSE x \in ids : TRUE
         IN UnwatchEach(Unwatch(st, id), ids \ {id})

\* The loop "for (const repo of repos) this.watchRepo(repo)".
RECURSIVE WatchEach(_, _, _, _)
WatchEach(w, ids, failMain, failRefs) ==
    IF ids = {} THEN w
    ELSE LET id == CHOOSE x \in ids : TRUE
         IN WatchEach(WatchHandles(w, id, id \notin failMain, id \notin failRefs),
                      ids \ {id}, failMain, failRefs)

\* A reconciliation that only adds.
ReconcileWatchOnly(st, repos, failMain, failRefs) ==
    [st EXCEPT !.w = WatchEach(st.w, repos, failMain, failRefs)]

\* Unwatch the repositories that are no longer in the list, watch the new ones.
Reconcile(st, repos, failMain, failRefs) ==
    LET un == UnwatchEach(st, (DOMAIN st.w) \ repos)
    IN  [un EXCEPT !.w = WatchEach(un.w, repos, failMain, failRefs)]

watchRepos(repos, failMain, failRefs) ==
    /\ NoTimerDue
    /\ SetWatcherState(Reconcile(WatcherState, repos, failMain, failRefs))
    /\ lastOp' = ReconcileOutcome(repos, WatchOutcome(watchers, repos, failMain))
    /\ UNCHANGED <<now, discoveryVars, listVars, channelVars, observerVars, scanVars>>

\* A stop that closes the handles and leaves the timers.
StopHandlesOnly(st) == [st EXCEPT !.w = EmptyMap]

\* stopAll as a function of the watcher state.
StopState(st) == UnwatchEach(st, DOMAIN st.w)

stopAll ==
    /\ NoTimerDue
    /\ SetWatcherState(StopState(WatcherState))
    /\ lastOp' = Logged("stopAll", "")
    /\ UNCHANGED <<now, discoveryVars, listVars, channelVars, observerVars, scanVars>>

\* Mutation: a trigger inside the window keeps the timer of the first trigger.
ArmTimerFromFirst(t, repoId) ==
    IF repoId \in DOMAIN t THEN t ELSE Put(t, repoId, now + debounceMs)

\* Mutation: one timer slot shared by all repositories.
ArmTimerShared(t, repoId) == [x \in {repoId} |-> now + debounceMs]

\* emitChange on the timer map: clear the existing timer of this repository
\* and arm a new one debounceMs from now.
ArmTimer(t, repoId) == Put(t, repoId, now + debounceMs)

\* A metadata mutation reported by one of the open handles of the repository.
emitChange(repoId) ==
    /\ NoTimerDue
    /\ repoId \in DOMAIN watchers
    /\ Len(trigs[repoId]) < MaxTrig
    /\ debounceTimers' = ArmTimer(debounceTimers, repoId)
    /\ trigs' = [trigs EXCEPT ![repoId] = Append(@, now)]
    /\ lastOp' = Other
    /\ UNCHANGED <<now, watchers, emits, discoveryVars, listVars, channelVars, observerVars, scanVars>>

\* The setTimeout callback: delete the timer, emit 'change'.
TimerFire(repoId) ==
    /\ repoId \in DOMAIN debounceTimers
    /\ debounceTimers[repoId] <= now
    /\ debounceTimers' = Del(debounceTimers, repoId)
    /\ emits' = [emits EXCEPT ![repoId] = Append(@, now)]
    /\ lastOp' = Other
    /\ UNCHANGED <<now, watchers, trigs, discoveryVars, listVars, channelVars, observerVars, scanVars>>

\* Time passes, but never beyond the instant the next timer is due.
Advance(d) ==
    /\ NoTimerDue
    /\ now + d <= MaxTime
    /\ now' = Min({now + d} \cup {debounceTimers[r] : r \in DOMAIN debounceTimers})
    /\ UNCHANGED <<lastOp, watcherVars, discoveryVars, listVars, channelVars, observerVars, scanVars>>

(***************************************************************************)
(* GitWatcher: properties                                                  *)
(***************************************************************************)
\* The i-th trigger of a session log ends a burst: no trigger follows it
\* within the quiet window.
BurstEnd(s, i) == i = Len(s) \/ s[i + 1] - s[i] >= debounceMs

TimerOf(t, r) == IF r \in DOMAIN t THEN t[r] ELSE -1
HandlesOf(w, r) == IF r \in DOMAIN w THEN w[r] ELSE 0

\* C1: for every watched repository, a burst of N >= 1 triggers, each less
\* than 300 ms after the previous one, produces exactly one 'change' event,
\* and that event is emitted 300 ms after the last trigger of the burst:
\* every event lies 300 ms after a trigger that ends a burst, every burst
\* whose window has passed has its event, and no instant carries two events.
C1_DebounceOncePerBurst ==
    \A r \in RepoIds :
        /\ \A j \in 1..Len(emits[r]) :
              \E i \in 1..Len(trigs[r]) :
                  BurstEnd(trigs[r], i) /\ emits[r][j] = trigs[r][i] + debounceMs
        /\ \A i \in 1..Len(trigs[r]) :
              (BurstEnd(trigs[r], i) /\ trigs[r][i] + debounceMs < now)
                  => \E j \in 1..Len(emits[r]) : emits[r][j] = trigs[r][i] + debounceMs
        /\ \A j, k \in 1..Len(emits[r]) : j < k => emits[r][j] < emits[r][k]

\* A burst of two triggers 100 or 200 ms apart has produced its one event.
C1_Witness ==
    \E r \in RepoIds :
        /\ Len(trigs[r]) >= 2
        /\ trigs[r][2] > trigs[r][1]
        /\ trigs[r][2] - trigs[r][1] < debounceMs
        /\ emits[r] = <<trigs[r][2] + debounceMs>>

\* C2: debounce timers are independent per repository: a trigger, a timer
\* expiry or an unwatch of repository a leaves the handles, the pending timer
\* and the events of every other repository b as they were, and the pending
\* timer of every repository stays due 300 ms after its own last trigger.
C2_IndependentStep ==
    \A a \in RepoIds :
        (emitChange(a) \/ TimerFire(a) \/ unwatchRepo(a)) =>
            \A b \in RepoIds \ {a} :
                /\ TimerOf(debounceTimers', b) = TimerOf(debounceTimers, b)
                /\ HandlesOf(watchers', b) = HandlesOf(watchers, b)
                /\ emits'[b] = emits[b]

C2_TimerOnSchedule ==
    \A b \in DOMAIN debounceTimers :
        /\ trigs[b] # << >>
        /\ debounceTimers[b] = Last(trigs[b]) + debounceMs
        /\ debounceTimers[b] >= now

C2_IndependentTimers == [][C2_IndependentStep]_vars /\ []C2_TimerOnSchedule

\* r2 was triggered once and emitted on time although r1 was triggered
\* inside r2's window.
C2_Witness ==
    /\ Len(trigs["r2"]) = 1
    /\ emits["r2"] = <<trigs["r2"][1] + debounceMs>>
    /\ \E i \in 1..Len(trigs["r1"]) :
          /\ trigs["r1"][i] > trigs["r2"][1]
          /\ trigs["r1"][i] < trigs["r2"][1] + debounceMs

\* C3: after unwatchRepo(id) the repository has no observation handles and no
\* pending debounce timer, and no 'change' event is emitted for it from a
\* trigger that preceded the unwatch, even one still inside its window.
C3_UnwatchStep ==
    \A id \in RepoIds :
        unwatchRepo(id) => (id \notin DOMAIN watchers' /\ id \notin DOMAIN debounceTimers')

C3_NoEventAfterUnwatch ==
    /\ \A r \in RepoIds \ DOMAIN watchers :
          r \notin DOMAIN debounceTimers /\ emits[r] = << >>
    /\ (lastOp.op = "unwatchRepo" /\ lastOp.hit >= 0) =>
          \A j \in 1..Len(emits[lastOp.id]) : emits[lastOp.id][j] # lastOp.hit

C3_UnwatchCancels == [][C3_UnwatchStep]_vars /\ []C3_NoEventAfterUnwatch

\* An unwatch cancelled a pending timer, and the instant that timer was due
\* has passed without an event.
C3_Witness ==
    /\ lastOp.op = "unwatchRepo"
    /\ lastOp.hit >= 0
    /\ now > lastOp.hit
    /\ emits[lastOp.id] = << >>

\* C4: unwatchRepo is idempotent: a second call in a row for the same id, or
\* a call for an id that is not watched, leaves the handle map and the timer
\* map as they were after the first call; no timer of the id remains.
C4_IdempotentStep ==
    \A id \in RepoIds :
        unwatchRepo(id) =>
            /\ id \notin DOMAIN watchers'
            /\ id \notin DOMAIN debounceTimers'
            /\ ((lastOp.op = "unwatchRepo" /\ lastOp.id = id) \/ id \notin DOMAIN watchers)
                  => (watchers' = watchers /\ debounceTimers' = debounceTimers)

C4_UnwatchIdempotent == [][C4_IdempotentStep]_vars

\* unwatchRepo has just been called twice in a row for the same id.
C4_Witness == lastOp.op = "unwatchRepo" /\ lastOp.rep

\* What a step of watchRepos(S, F, ...) leaves in the log, the clock standing
\* still: the conjuncts of the action that are read first.
ReconcilesTo(S, F) ==
    /\ now' = now
    /\ lastOp' = ReconcileOutcome(S, WatchOutcome(watchers, S, F))

\* C29: when watch(gitDir) throws for a repository, the call returns, the
\* repository is left unwatched, with no entry in the handle map and no
\* timer, the other repositories of the same watchRepos call are watched, and
\* a later watchRepos call in which the watch succeeds watches it.
C29_Step ==
    /\ \A r \in RepoIds : \A refsOk \in BOOLEAN :
          (r \notin DOMAIN watchers /\ watchRepo(r, FALSE, refsOk)) =>
              /\ r \notin DOMAIN watchers' /\ r \notin DOMAIN debounceTimers'
              /\ lastOp' = Op("watchFailed", r, -1)
    /\ \A S \in SUBSET RepoIds : \A F \in SUBSET S :
          (ReconcilesTo(S, F) /\ watchRepos(S, F, {})) =>
              /\ DOMAIN watchers' = (S \ F) \cup (S \cap DOMAIN watchers)
              /\ \A r \in F \ DOMAIN watchers : r \notin DOMAIN debounceTimers'
              /\ \A r \in S \ F : watchers'[r] >= 1
    /\ lastOp'.op = "watchFailed" =>
          lastOp'.id \notin DOMAIN watchers' /\ lastOp'.id \notin DOMAIN debounceTimers'

C29_FailedWatchSkipped == [][C29_Step]_vars

\* One repository of a watchRepos call failed and the other is watched.
C29_Witness ==
    /\ lastOp.op = "watchFailed"
    /\ lastOp.id \notin DOMAIN watchers
    /\ lastOp.id \notin DOMAIN debounceTimers
    /\ \E r \in RepoIds \ {lastOp.id} : r \in DOMAIN watchers

\* C34: after watchRepos(S) the watched ids are the ids of S whose watch did
\* not fail; every repository that was watched and is not in S is unwatched
\* and has no timer; a repository that stays keeps its handles, and its
\* pending timer is neither cancelled nor restarted.
C34_Step ==
    \A S \in SUBSET RepoIds : \A F \in SUBSET S :
        (ReconcilesTo(S, F) /\ watchRepos(S, F, {})) =>
            /\ DOMAIN watchers' = S \ (F \ DOMAIN watchers)
            /\ \A r \in DOMAIN watchers \ S :
                  r \notin DOMAIN watchers' /\ r \notin DOMAIN debounceTimers'
            /\ \A r \in DOMAIN watchers \cap S :
                  /\ watchers'[r] = watchers[r]
                  /\ TimerOf(debounceTimers', r) = TimerOf(debounceTimers, r)
                  /\ trigs'[r] = trigs[r] /\ emits'[r] = emits[r]

C34_ReconcileExact == [][C34_Step]_vars

\* A watchRepos call has unwatched a repository whose timer was pending
\* while the other repository kept its timer.
C34_Witness ==
    /\ lastOp.op = "watchRepos"
    /\ lastOp.id \notin DOMAIN watchers
    /\ lastOp.id \notin DOMAIN debounceTimers
    /\ \E r \in DOMAIN watchers : r \in DOMAIN debounceTimers /\ debounceTimers[r] > now

\* C35: every id with a pending timer is watched, the timer map holds one
\* timer per id, a 'change' event is only emitted by the pending timer of a
\* watched repository, and after stopAll there are no handles and no timers,
\* so that nothing can be emitted.
C35_Step ==
    /\ stopAll => watchers' = EmptyMap /\ debounceTimers' = EmptyMap
    /\ \A r \in RepoIds :
          Len(emits'[r]) > Len(emits[r]) =>
              /\ r \in DOMAIN debounceTimers /\ r \in DOMAIN watchers
              /\ r \notin DOMAIN debounceTimers'
              /\ Len(emits'[r]) = Len(emits[r]) + 1

C35_TimersOfWatched ==
    /\ [](DOMAIN debounceTimers \subseteq DOMAIN watchers)
    /\ [](lastOp.op = "stopAll" => watchers = EmptyMap /\ debounceTimers = EmptyMap)
    /\ [][C35_Step]_vars

\* stopAll ran, and time has passed since without an event.
C35_Witness ==
    /\ lastOp.op = "stopAll"
    /\ now > 0
    /\ watchers = EmptyMap /\ debounceTimers = EmptyMap
    /\ \A r \in RepoIds : emits[r] = << >>

\* C37: watchRepo for a repository that is already watched leaves its
\* handles, its pending timer and its logs as they were, so that the burst
\* in progress still ends in one event.
C37_Step ==
    \A r \in RepoIds : \A mainOk \in BOOLEAN : \A refsOk \in BOOLEAN :
        (r \in DOMAIN watchers /\ watchRepo(r, mainOk, refsOk)) =>
            /\ watchers' = watchers
            /\ debounceTimers' = debounceTimers
            /\ trigs' = trigs /\ emits' = emits

C37_WatchRepoIdempotent ==
    /\ [][C37_Step]_vars
    /\ [](\A r \in DOMAIN watchers : watchers[r] \in {1, 2})

\* watchRepo was called for a watched repository whose timer is pending.
C37_Witness ==
    /\ lastOp.op = "watchRepo"
    /\ lastOp.id \in DOMAIN watchers
    /\ lastOp.id \in DOMAIN debounceTimers
    /\ debounceTimers[lastOp.id] > now

WatcherNext ==
    \/ \E r \in RepoIds : unwatchRepo(r)
    \/ \E r \in RepoIds, mainOk \in BOOLEAN, refsOk \in BOOLEAN : watchRepo(r, mainOk, refsOk)
    \/ \E S \in SUBSET RepoIds : \E F \in SUBSET S : watchRepos(S, F, {})
    \/ stopAll
    \/ \E r \in RepoIds : emitChange(r)
    \/ \E r \in RepoIds : TimerFire(r)
    \/ \E d \in Delays : Advance(d)

WatcherSpec == Init /\ [][WatcherNext]_vars

(***************************************************************************)
(* DiscoveryService                                                        *)
(***************************************************************************)
\* config.machineName and config.port of this node.
machineName == "m0"
port == 3847

\* `${name}-${port}`
NamePort(name, p) == name \o "-" \o ToString(p)

selfId == NamePort(machineName, port)

\* Service records the browser can report. txtId = "" stands for a record
\* without txt.id (or with an empty one), which falls back to name-port.
Services ==
    { [name |-> "m0", port |-> 3847, host |-> "h0", txtId |-> "m0-3847"],
      [name |-> "m0", port |-> 3847, host |-> "h0", txtId |-> ""],
      [name |-> "m1", port |-> 3847, host |-> "h1", txtId |-> "m1-3847"],
      [name |-> "m1b", port |-> 3847, host |-> "h1", txtId |-> ""],
      [name |-> "m2", port |-> 3848, host |-> "h2", txtId |-> "m2-3848"] }

\* Mutation: the fallback to name-port is forgotten in the self test.
ServiceIdTxtOnly(service) == service.txtId

\* service.txt?.id || `${service.name}-${service.port}`
ServiceId(service) ==
    IF service.txtId # "" THEN service.txtId ELSE NamePort(service.name, service.port)

\* The id the 'up' handler compares with selfId.
UpTestId(service) == ServiceId(service)

PeerIds(ps) == {ps[k].id : k \in 1..Len(ps)}
IndexOf(ps, id) == CHOOSE k \in 1..Len(ps) : ps[k].id = id

\* Mutation: the peers are kept in an array and every sighting is pushed.
MapSetPush(ps, peer) == Append(ps, peer)

\* A set keyed by host and port: a record replaces the entry of its host:port.
MapSetByHostPort(ps, peer) ==
    IF \E k \in 1..Len(ps) : ps[k].host = peer.host /\ ps[k].port = peer.port
    THEN [k \in 1..Len(ps) |->
             IF ps[k].host = peer.host /\ ps[k].port = peer.port THEN peer ELSE ps[k]]
    ELSE Append(ps, peer)

\* Map.set: replace the value of an existing key in place, else append.
MapSet(ps, peer) ==
    IF peer.id \in PeerIds(ps)
    THEN [ps EXCEPT ![IndexOf(ps, peer.id)] = peer]
    ELSE Append(ps, peer)

\* Map.delete: drop the entry, keep the order of the others.
MapDelete(ps, id) == SelectSeq(ps, LAMBDA q : q.id # id)

\* The Peer record built by the 'up' handler.
MakePeer(service) ==
    [id |-> ServiceId(service), name |-> service.name, host |-> service.host,
     port |-> service.port, lastSeen |-> now]

start ==
    /\ ~browsing
    /\ advertised' = TRUE
    /\ browsing' = TRUE
    /\ notes' = << >>
    /\ lastOp' = Op("start", "", now)
    /\ UNCHANGED <<now, peers, watcherVars, listVars, channelVars, observerVars, scanVars>>

\* browser.on('up', ...)
up(service) ==
    /\ browsing
    /\ IF UpTestId(service) = selfId
       THEN /\ peers' = peers
            /\ notes' = << >>
       ELSE /\ peers' = MapSet(peers, MakePeer(service))
            /\ notes' = <<[type |-> "peer:up", peer |-> MakePeer(service)]>>
    /\ lastOp' = Op("up", ServiceId(service), now)
    /\ UNCHANGED <<now, browsing, advertised, watcherVars, listVars, channelVars, observerVars, scanVars>>

\* Mutation: 'peer:down' is emitted whether or not the peer was known.
DownNotesAlways(ps, id) == <<[type |-> "peer:down", peer |-> [id |-> id]]>>

\* What the 'down' handler emits.
DownNotes(ps, id) ==
    IF id \in PeerIds(ps)
    THEN <<[type |-> "peer:down", peer |-> ps[IndexOf(ps, id)]]>>
    ELSE << >>

\* browser.on('down', ...)
down(service) ==
    /\ browsing
    /\ peers' = IF ServiceId(service) \in PeerIds(peers)
                THEN MapDelete(peers, ServiceId(service))
                ELSE peers
    /\ notes' = DownNotes(peers, ServiceId(service))
    /\ lastOp' = Op("down", ServiceId(service), now)
    /\ UNCHANGED <<now, browsing, advertised, watcherVars, listVars, channelVars, observerVars, scanVars>>

\* stop(): service.stop(), browser.stop(), bonjour.destroy(). The peers map
\* is not touched.
stop ==
    /\ advertised' = FALSE
    /\ browsing' = FALSE
    /\ notes' = << >>
    /\ lastOp' = Op("stop", "", now)
    /\ UNCHANGED <<now, peers, watcherVars, listVars, channelVars, observerVars, scanVars>>

\* getPeers(): Array.from(this.peers.values())
getPeers == peers

(***************************************************************************)
(* DiscoveryService: properties                                            *)
(***************************************************************************)
\* C5: in every reachable state no entry of the peer set has the id of this
\* node, whatever 'up' and 'down' events were observed, and an 'up' event for
\* this node's own record emits no 'peer:up'.
C5_SelfNeverAPeer ==
    /\ selfId \notin PeerIds(peers)
    /\ (lastOp.op = "up" /\ lastOp.id = selfId) => notes = << >>

\* The node has just seen its own advertisement while it knows a peer.
C5_Witness == lastOp.op = "up" /\ lastOp.id = selfId /\ Len(peers) >= 1

\* C6: an 'up' sighting of a non-self record with id i leaves exactly one
\* entry with id i, whose lastSeen is the time of that sighting; a repeat
\* sighting of a known peer does not change the size of the peer set.
C6_UpStep ==
    \A service \in Services :
        (up(service) /\ ServiceId(service) # selfId) =>
            LET i == ServiceId(service)
            IN  /\ Cardinality({k \in 1..Len(peers') : peers'[k].id = i}) = 1
                /\ peers'[IndexOf(peers', i)].lastSeen = now
                /\ i \in PeerIds(peers) => Len(peers') = Len(peers)
                /\ Len(peers') <= Len(peers) + 1

C6_OneEntryPerId ==
    /\ \A j, k \in 1..Len(peers) : peers[j].id = peers[k].id => j = k
    /\ (lastOp.op = "up" /\ lastOp.id # selfId) =>
          /\ Cardinality({k \in 1..Len(peers) : peers[k].id = lastOp.id}) = 1
          /\ peers[IndexOf(peers, lastOp.id)].lastSeen = lastOp.hit

C6_UpsertRefreshes == [][C6_UpStep]_vars /\ []C6_OneEntryPerId

\* A known peer was sighted again, later: its lastSeen moved, the set did
\* not grow.
C6_Witness ==
    /\ lastOp.op = "up" /\ lastOp.rep /\ lastOp.id # selfId
    /\ lastOp.hit > 0
    /\ Len(peers) = 2
    /\ peers[IndexOf(peers, lastOp.id)].lastSeen = lastOp.hit

\* C7: a 'down' event for an id in the peer set removes that peer and emits
\* exactly one 'peer:down' for it; a 'down' event for an id that is not in
\* the peer set (the self id included) changes nothing and emits nothing.
C7_DownStep ==
    \A service \in Services :
        down(service) =>
            LET i == ServiceId(service)
            IN  IF i \in PeerIds(peers)
                THEN /\ i \notin PeerIds(peers')
                     /\ Len(peers') = Len(peers) - 1
                     /\ peers' = SelectSeq(peers, LAMBDA q : q.id # i)
                     /\ Len(notes') = 1
                     /\ notes'[1].type = "peer:down"
                     /\ notes'[1].peer = peers[IndexOf(peers, i)]
                ELSE /\ peers' = peers
                     /\ notes' = << >>
                     /\ UNCHANGED <<browsing, advertised>>

C7_DownRemovesOnce == [][C7_DownStep]_vars

\* A known peer has just gone down while another peer stays listed.
C7_Witness ==
    /\ lastOp.op = "down"
    /\ Len(notes) = 1
    /\ Len(peers) >= 1
    /\ lastOp.id \notin PeerIds(peers)

\* C8: the peer directory is restart-safe: once stopped, the peer set is
\* empty (getPeers returns no peers), and a start() after a stop() begins
\* from an empty peer set.
C8_RestartSafe ==
    /\ ~browsing => getPeers = << >>
    /\ lastOp.op = "start" => getPeers = << >>

\* The ids of the peer set, in the order of the map.
IdsOf(ps) == [k \in 1..Len(ps) |-> ps[k].id]

\* C36: the peer set is keyed by id alone: an 'up' event of a non-self
\* record with a new id appends it, whatever host:port the listed peers
\* have, and one with a known id keeps every position; a 'down' event keeps
\* the order of the others; no other step, the passing of time included,
\* changes the peer set.
C36_Step ==
    /\ \A service \in Services :
          (up(service) /\ ServiceId(service) # selfId) =>
              IdsOf(peers') = IF ServiceId(service) \in PeerIds(peers)
                              THEN IdsOf(peers)
                              ELSE Append(IdsOf(peers), ServiceId(service))
    /\ \A service \in Services :
          down(service) =>
              IdsOf(peers') = SelectSeq(IdsOf(peers), LAMBDA i : i # ServiceId(service))
    /\ peers' # peers => \E service \in Services : up(service) \/ down(service)
    /\ now' # now => peers' = peers

C36_KeyedByIdOnly == [][C36_Step]_vars

\* Two records of the same host:port are listed in the order they were
\* seen, and the first has been silent for longer than a sighting ago.
C36_Witness ==
    /\ Len(peers) = 2
    /\ peers[1].id # peers[2].id
    /\ peers[1].host = peers[2].host /\ peers[1].port = peers[2].port
    /\ peers[1].lastSeen < peers[2].lastSeen
    /\ now >= peers[2].lastSeen + 300

DiscoveryNext ==
    \/ start
    \/ stop
    \/ \E service \in Services : up(service)
    \/ \E service \in Services : down(service)
    \/ \E d \in Delays : Advance(d)

DiscoverySpec == Init /\ [][DiscoveryNext]_vars

(***************************************************************************)
(* RepoList: peer fetches and the aggregated list                          *)
(***************************************************************************)
\* selectedPeer === null
NoPeer == [id |-> "", name |-> "", host |-> "", port |-> 0]

\* getSelfInfo() as served by /api/peers
SelfPeer == [id |-> selfId, name |-> machineName, host |-> "localhost", port |-> port]

\* Peer records /api/peers can list; the first two share host:port.
PeerUniverse ==
    { [id |-> "m1-3847", name |-> "m1", host |-> "h1", port |-> 3847],
      [id |-> "m1b-3847", name |-> "m1b", host |-> "h1", port |-> 3847],
      [id |-> "m2-3848", name |-> "m2", host |-> "h2", port |-> 3848] }

PeerLists ==
    {ps \in UNION {[1..n -> PeerUniverse] : n \in 0..MaxPeers} :
        \A j, k \in 1..Len(ps) : ps[j].id = ps[k].id => j = k}

\* latestCommit: CommitInfo | null
NoCommit == [has |-> FALSE, timestamp |-> 0]
Commit(t) == [has |-> TRUE, timestamp |-> t]

\* RepoStatus: the fields the list and the card read.
Status(isClean, ahead, behind, hasRemote, stashes) ==
    [isClean |-> isClean, ahead |-> ahead, behind |-> behind,
     hasRemote |-> hasRemote, stashes |-> stashes,
     conflicted |-> 0, mergeInProgress |-> FALSE, rebaseInProgress |-> FALSE]

Clean == Status(TRUE, 0, 0, TRUE, 0)

\* RepoWithStatus
Repo(id, name, status, c) ==
    [id |-> id, name |-> name, status |-> status, latestCommit |-> c]

\* The display names of the repositories (the basename of their path).
RepoNames == {"proj", "lib", "tool"}

\* What GET /api/repos/detailed of the local machine can return: a1 and a3
\* are two repositories named proj at different paths.
LocalLists ==
    { <<Repo("a1", "proj", Clean, Commit(100)),
        Repo("a2", "lib", Status(FALSE, 0, 0, FALSE, 0), NoCommit),
        Repo("a3", "proj", Status(FALSE, 2, 0, TRUE, 1), Commit(300))>> }

\* Bodies a peer can answer with: JSON that is a repository list, and JSON
\* that is something else (an object), which res.json() returns as it is.
ListBody(items) == [kind |-> "list", items |-> items]
ObjectBody == [kind |-> "object", items |-> << >>]

\* The repository lists the peers answer with: the machine at h1 (records
\* m1 and m1b) and the machine at h2 (record m2).
PeerLists200(id) ==
    IF id = "m2-3848"
    THEN { ListBody(<<Repo("c1", "proj", Status(TRUE, 1, 0, TRUE, 0), Commit(200)),
                      Repo("c2", "tool", Clean, Commit(200)),
                      Repo("c3", "lib", Status(FALSE, 0, 0, TRUE, 1), NoCommit)>>) }
    ELSE { ListBody(<<Repo("b1", "proj", Status(TRUE, 0, 1, TRUE, 0), Commit(200)),
                      Repo("b2", "tool", Status(FALSE, 1, 1, TRUE, 0), Commit(100)),
                      Repo("b3", "lib", Clean, Commit(100))>>) }

\* A key that tells apart two records of the same host:port.
HostPortOfRecord(peer) == peer.id

\* `${peer.host}:${peer.port}`
HostPort(peer) == peer.host \o ":" \o ToString(peer.port)

\* The filter that keeps the first record of every host:port.
RECURSIVE DedupFrom(_, _, _)
DedupFrom(ps, k, seen) ==
    IF k > Len(ps) THEN << >>
    ELSE IF HostPort(ps[k]) \in seen THEN DedupFrom(ps, k + 1, seen)
    ELSE <<ps[k]>> \o DedupFrom(ps, k + 1, seen \cup {HostPort(ps[k])})

UniquePeers(ps) == DedupFrom(ps, 1, {})

SeqIds(ps) == {ps[k].id : k \in 1..Len(ps)}

\* The peers fetchPeerRepos goes on with: not loading, nothing cached.
ToFetch(ps) ==
    {id \in SeqIds(UniquePeers(ps)) : id \notin loadingPeers /\ id \notin DOMAIN peerRepos}

\* The usePeers() query delivers (new) data; the effect on peersData.peers
\* runs and starts a fetch for every unique peer it does not skip. silent:
\* the peers that accept the request and never answer it.
PeersLoaded(ps, silent) ==
    /\ ~peersData.loaded \/ ps # peersData.peers
    /\ silent \subseteq ToFetch(ps)
    /\ peersData' = [loaded |-> TRUE, peers |-> ps]
    /\ loadingPeers' = loadingPeers \cup ToFetch(ps)
    /\ requests' = [id \in (DOMAIN requests) \cup ToFetch(ps) |->
                       IF id \in ToFetch(ps)
                       THEN IF id \in silent THEN "silent" ELSE "pending"
                       ELSE requests[id]]
    /\ UNCHANGED <<now, lastOp, localRepos, peerRepos, selectedPeer, fetchResult,
                   watcherVars, discoveryVars, channelVars, observerVars, scanVars>>

\* The finally block, and the end of the request.
FetchDone(id, how) ==
    /\ loadingPeers' = loadingPeers \ {id}
    /\ requests' = Del(requests, id)
    /\ fetchResult' = Put(fetchResult, id, how)
    /\ UNCHANGED <<now, lastOp, peersData, localRepos, selectedPeer,
                   watcherVars, discoveryVars, channelVars, observerVars, scanVars>>

Answered(id) == id \in DOMAIN requests /\ requests[id] = "pending"

\* An update computed from the empty Map of the first render instead of
\* the current one.
SetPeerFromClosure(prev, id, body) == [k \in {id} |-> body]

\* setPeerRepos((prev) => new Map(prev).set(peer.id, repos))
SetPeer(prev, id, body) == Put(prev, id, body)

\* res.ok and res.json() returns a repository list.
FetchOk(id, body) ==
    /\ Answered(id)
    /\ peerRepos' = SetPeer(peerRepos, id, body)
    /\ FetchDone(id, "ok")

\* res.ok and res.json() returns JSON that is no repository list.
FetchOtherJson(id) ==
    /\ Answered(id)
    /\ peerRepos' = SetPeer(peerRepos, id, ObjectBody)
    /\ FetchDone(id, "malformed")

\* !res.ok: nothing is cached.
FetchNotOk(id) ==
    /\ Answered(id)
    /\ peerRepos' = peerRepos
    /\ FetchDone(id, "notok")

\* fetch() rejects (unreachable) or res.json() throws (unparseable body).
FetchThrows(id) ==
    /\ Answered(id)
    /\ peerRepos' = SetPeer(peerRepos, id, ListBody(<< >>))
    /\ FetchDone(id, "threw")

\* useRepos() settles.
LocalLoaded(list) ==
    /\ localRepos' = [isLoading |-> FALSE, error |-> FALSE, hasData |-> TRUE, data |-> list]
    /\ localRepos' # localRepos
    /\ lastOp' = Other
    /\ UNCHANGED <<now, peersData, peerRepos, loadingPeers, selectedPeer,
                   requests, fetchResult, watcherVars, discoveryVars, channelVars, observerVars, scanVars>>

LocalFailed ==
    /\ localRepos' = [localRepos EXCEPT !.isLoading = FALSE, !.error = TRUE]
    /\ localRepos' # localRepos
    /\ UNCHANGED <<now, lastOp, peersData, peerRepos, loadingPeers, selectedPeer,
                   requests, fetchResult, watcherVars, discoveryVars, channelVars, observerVars, scanVars>>

\* PeerSelector: "All", or one of the buttons of [self, ...peers] deduplicated
\* by host:port.
Selectable ==
    {NoPeer} \cup
    (IF peersData.loaded
     THEN LET u == UniquePeers(<<SelfPeer>> \o peersData.peers)
          IN {u[k] : k \in 1..Len(u)}
     ELSE {})

SelectPeer(peer) ==
    /\ peer \in Selectable
    /\ peer # selectedPeer
    /\ selectedPeer' = peer
    /\ UNCHANGED <<now, lastOp, peersData, localRepos, peerRepos, loadingPeers,
                   requests, fetchResult, watcherVars, discoveryVars, channelVars, observerVars, scanVars>>

\* { ...repo, machineName, peer }
Tag(repo, name, peer) ==
    [id |-> repo.id, name |-> repo.name, status |-> repo.status,
     latestCommit |-> repo.latestCommit, machineName |-> name, peer |-> peer]

TagAll(items, name, peer) == [k \in 1..Len(items) |-> Tag(items[k], name, peer)]

\* peerRepos.get(peer.id) || []
Cached(cache, id) == IF id \in DOMAIN cache THEN cache[id] ELSE ListBody(<< >>)

\* A local part that takes no account of the scope.
LocalPartAnyScope(local, sel) ==
    IF local.hasData THEN TagAll(local.data, SelfPeer.name, NoPeer) ELSE << >>

\* The local part of aggregatedRepos.
LocalPart(local, sel) ==
    IF local.hasData /\ (sel = NoPeer \/ sel.id = SelfPeer.id)
    THEN TagAll(local.data, SelfPeer.name, NoPeer)
    ELSE << >>

\* The loop over peersData.peers that pushes every cached repository of the
\* first record of each host:port, within the selected scope.
RECURSIVE PeerPart(_, _, _, _, _)
PeerPart(ps, k, seen, cache, sel) ==
    IF k > Len(ps) THEN << >>
    ELSE IF HostPort(ps[k]) \in seen THEN PeerPart(ps, k + 1, seen, cache, sel)
    ELSE LET rest == PeerPart(ps, k + 1, seen \cup {HostPort(ps[k])}, cache, sel)
         IN  IF sel # NoPeer /\ sel.id # ps[k].id THEN rest
             ELSE TagAll(Cached(cache, ps[k].id).items, ps[k].name, ps[k]) \o rest

Built(pd, local, cache, sel) ==
    IF pd.loaded
    THEN LocalPart(local, sel) \o PeerPart(pd.peers, 1, {}, cache, sel)
    ELSE << >>

\* a.latestCommit?.timestamp ?? 0
TimeOf(e) == IF e.latestCommit.has THEN e.latestCommit.timestamp ELSE 0

\* A comparator for the ascending order.
CompareAscending(a, b) == TimeOf(a) - TimeOf(b)

\* The comparator of aggregatedRepos.sort: negative when a goes first.
Compare(a, b) == TimeOf(b) - TimeOf(a)

\* Array.prototype.sort with this comparator (a stable sort).
RECURSIVE InsertSorted(_, _)
InsertSorted(sorted, e) ==
    IF sorted = << >> THEN <<e>>
    ELSE IF Compare(Last(sorted), e) <= 0 THEN Append(sorted, e)
    ELSE Append(InsertSorted(SubSeq(sorted, 1, Len(sorted) - 1), e), Last(sorted))

RECURSIVE SortFrom(_, _, _)
SortFrom(list, k, acc) ==
    IF k > Len(list) THEN acc ELSE SortFrom(list, k + 1, InsertSorted(acc, list[k]))

Sort(list) == SortFrom(list, 1, << >>)

\* "for (const repo of repos)" throws a TypeError when the cached body of a
\* unique peer is not iterable (reposByName visits every unique peer,
\* whatever the scope).
RenderThrows(pd, cache) ==
    /\ pd.loaded
    /\ \E k \in 1..Len(UniquePeers(pd.peers)) :
          Cached(cache, UniquePeers(pd.peers)[k].id).kind # "list"

\* aggregatedRepos after the sort, for a given cache and scope.
Aggregated(pd, local, cache, sel) ==
    IF RenderThrows(pd, cache) THEN << >> ELSE Sort(Built(pd, local, cache, sel))

aggregatedRepos == Aggregated(peersData, localRepos, peerRepos, selectedPeer)

isLoading == localRepos.isLoading \/ loadingPeers # {}

\* What the component renders.
View ==
    IF RenderThrows(peersData, peerRepos) THEN "crashed"
    ELSE IF isLoading /\ aggregatedRepos = << >> THEN "loading"
    ELSE IF localRepos.error THEN "error"
    ELSE IF aggregatedRepos = << >> THEN "empty"
    ELSE "list"

\* The render completes: no cached body makes a loop throw.
Rendered == ~RenderThrows(peersData, peerRepos)

\* The { peer, repo, machineName } records reposByName holds, in the order
\* they are pushed: the local repositories, then the cached repositories of
\* the first record of each host:port.
Versions(pd, local, cache) ==
    IF pd.loaded
    THEN (IF local.hasData THEN TagAll(local.data, SelfPeer.name, NoPeer) ELSE << >>)
         \o PeerPart(pd.peers, 1, {}, cache, NoPeer)
    ELSE << >>

\* reposByName.get(name) || []
ByName(pd, local, cache, name) ==
    SelectSeq(Versions(pd, local, cache), LAMBDA v : v.name = name)

reposByName(name) == ByName(peersData, localRepos, peerRepos, name)

\* The loop of the stats memo over a list, from position k on, with the
\* counters so far.
RECURSIVE StatsFrom(_, _, _)
StatsFrom(list, k, acc) ==
    IF k > Len(list) THEN [acc EXCEPT !.total = Len(list)]
    ELSE StatsFrom(list, k + 1,
            [clean    |-> acc.clean + (IF list[k].status.isClean THEN 1 ELSE 0),
             modified |-> acc.modified + (IF list[k].status.isClean THEN 0 ELSE 1),
             ahead    |-> acc.ahead + (IF list[k].status.ahead > 0 THEN 1 ELSE 0),
             behind   |-> acc.behind + (IF list[k].status.behind > 0 THEN 1 ELSE 0),
             total    |-> acc.total])

StatsOf(list) ==
    StatsFrom(list, 1, [clean |-> 0, modified |-> 0, ahead |-> 0, behind |-> 0, total |-> 0])

\* Statistics over every version of the index, whatever the scope.
statsOfIndex == StatsOf(Versions(peersData, localRepos, peerRepos))

stats == StatsOf(aggregatedRepos)

\* The other machines' versions handed to the card of an entry.
getOtherMachines(repo) ==
    SelectSeq(reposByName(repo.name),
              LAMBDA v : v.machineName # repo.machineName /\ v.peer # NoPeer)

(***************************************************************************)
(* RepoCard: freshness comparison and action buttons                       *)
(***************************************************************************)
\* The label of the row of another machine's version om in the card of repo;
\* "none" when the row carries no label.
Label(om, repo) ==
    IF om.latestCommit.has /\ repo.latestCommit.has
    THEN IF om.latestCommit.timestamp > repo.latestCommit.timestamp THEN "NEWER"
         ELSE IF om.latestCommit.timestamp < repo.latestCommit.timestamp THEN "OLDER"
         ELSE "SYNCED"
    ELSE "none"

\* !!newerMachine
hasNewerElsewhere(repo, otherMachines) ==
    \E k \in 1..Len(otherMachines) :
        /\ otherMachines[k].latestCommit.has /\ repo.latestCommit.has
        /\ otherMachines[k].latestCommit.timestamp > repo.latestCommit.timestamp

\* The colour of the status bar of the card.
getStatusType(status, newerElsewhere) ==
    IF status.conflicted > 0 THEN "conflict"
    ELSE IF status.mergeInProgress \/ status.rebaseInProgress THEN "conflict"
    ELSE IF status.behind > 0 /\ status.ahead > 0 THEN "conflict"
    ELSE IF status.behind > 0 THEN "behind"
    ELSE IF status.ahead > 0 THEN "ahead"
    ELSE IF ~status.isClean THEN "modified"
    ELSE IF newerElsewhere THEN "behind"
    ELSE "clean"

\* Operations that push only while no other machine is newer.
OperationsGated(repo, otherMachines, isPending, typed) ==
    LET offered == {"fetch", "pull"}
                   \cup (IF repo.status.hasRemote /\ ~hasNewerElsewhere(repo, otherMachines)
                         THEN {"push"} ELSE {})
    IN  [offered |-> offered, enabled |-> IF isPending THEN {} ELSE offered]

\* The mutating operations the expanded card of repo offers (the buttons it
\* renders) and enables (the buttons that are not disabled), given the other
\* machines' versions, gitOp.isPending and whether a commit message is typed.
Operations(repo, otherMachines, isPending, typed) ==
    LET status == repo.status
        offered == {"fetch", "pull"}
                   \cup (IF status.hasRemote THEN {"push"} ELSE {})
                   \cup (IF status.behind > 0 THEN {"rebase"} ELSE {})
                   \cup (IF ~status.isClean THEN {"stash", "commit"} ELSE {})
                   \cup (IF status.stashes > 0 THEN {"pop"} ELSE {})
    IN  [offered |-> offered,
         enabled |-> IF isPending THEN {}
                     ELSE IF typed THEN offered ELSE offered \ {"commit"}]

(***************************************************************************)
(* RepoList: properties                                                    *)
(***************************************************************************)
\* The peers whose fetch has failed or has not completed.
FailedOrPending ==
    loadingPeers \cup
    {id \in DOMAIN fetchResult : fetchResult[id] \in {"threw", "notok", "malformed"}}

Entries(list) == {list[k] : k \in 1..Len(list)}

\* The entries the build takes from the local machine and from the peers
\* other than id that have a cached list.
FromOthers(id) ==
    Entries(Built(peersData, localRepos,
                  [q \in (DOMAIN peerRepos) \ {id} |-> peerRepos[q]], selectedPeer))

InDisplayOrder(list) ==
    \A j, k \in 1..Len(list) : j < k => TimeOf(list[j]) >= TimeOf(list[k])

Isolated(id) ==
    /\ View # "crashed"
    /\ View = "error" => localRepos.error
    /\ \A e \in Entries(aggregatedRepos) : e.peer.id # id
    /\ FromOthers(id) \subseteq Entries(aggregatedRepos)
    /\ InDisplayOrder(aggregatedRepos)

\* C9: in any aggregation pass where the fetch of peer P has failed
\* (unreachable, non-OK response, malformed body) or has not completed, P
\* contributes no entry and no error state, every entry of the local machine
\* and of every other peer with a cached result is present, and the list is
\* in display order.
C9_FailureIsolated == \A id \in FailedOrPending : Isolated(id)

\* The same, for the failures fetchPeerRepos handles: a rejected fetch, a
\* non-OK response, a body res.json() cannot parse, a fetch in flight.
HandledFailuresIsolated ==
    \A id \in FailedOrPending :
        (\A q \in DOMAIN peerRepos : peerRepos[q].kind = "list") => Isolated(id)

\* C10: every per-peer fetch has a bounded wait: a peer in the loading set
\* eventually leaves it, also when the peer never responds.
C10_FetchEnds ==
    \A id \in {q.id : q \in PeerUniverse} :
        (id \in loadingPeers) ~> (id \notin loadingPeers)

\* The fetch effect runs: its dependency peersData.peers has changed.
FetchPass == peersData' # peersData

\* The peers whose last fetch ended in a failure and is not in flight.
Failed ==
    {id \in DOMAIN fetchResult :
        fetchResult[id] \in {"threw", "notok", "malformed"} /\ id \notin loadingPeers}

\* C11: a peer whose fetch failed is fetched again on the next aggregation
\* cycle: when the fetch pass runs again while the peer is still a (unique)
\* peer of the peer set, a new request is issued to that peer.
C11_FailedPeerRefetched ==
    [][FetchPass =>
          \A id \in Failed \cap SeqIds(UniquePeers(peersData'.peers)) :
              id \in DOMAIN requests']_vars

\* The same for the one failure that caches nothing: a non-OK response.
NotOkPeerRefetched ==
    [][FetchPass =>
          \A id \in Failed \cap SeqIds(UniquePeers(peersData'.peers)) :
              fetchResult[id] = "notok" => id \in DOMAIN requests']_vars

\* The number of entries of a list that come from the peer record id.
CountOf(list, id) == Cardinality({k \in 1..Len(list) : list[k].peer.id = id})

\* The peer record at position k of the list is not the first of its host:port.
Shadowed(ps, k) ==
    \E j \in 1..(k - 1) : ps[j].host = ps[k].host /\ ps[j].port = ps[k].port

AllVersions == Versions(peersData, localRepos, peerRepos)

\* C12: when several peer records share a host:port, only the first record in
\* directory order contributes to the aggregated list and to the by-name
\* index: a later record contributes no entry, and every cached repository
\* of the first record appears exactly once in each.
C12_FirstRecordOnly ==
    Rendered =>
        \A k \in 1..Len(peersData.peers) :
            LET p == peersData.peers[k]
                all == Aggregated(peersData, localRepos, peerRepos, NoPeer)
                n == IF Shadowed(peersData.peers, k) THEN 0
                     ELSE Len(Cached(peerRepos, p.id).items)
            IN  /\ CountOf(all, p.id) = n
                /\ CountOf(AllVersions, p.id) = n
                /\ CountOf(aggregatedRepos, p.id) <= n
                /\ \A name \in RepoNames :
                       CountOf(reposByName(name), p.id) <= n

\* Two listed records share a host:port and both have a cached list with
\* repositories.
C12_Witness ==
    /\ Rendered
    /\ \E k \in 1..Len(peersData.peers) :
          /\ Shadowed(peersData.peers, k)
          /\ \A j \in 1..k : Len(Cached(peerRepos, peersData.peers[j].id).items) > 0

Items(list) == {list[k] : k \in 1..Len(list)}

\* The entries of the local machine: its repositories, once they are loaded.
LocalEntries ==
    IF localRepos.hasData
    THEN {Tag(r, machineName, NoPeer) : r \in Items(localRepos.data)}
    ELSE {}

\* The entries of the peer record at position k of the directory: its cached
\* repositories, when it is the first record of its host:port.
PeerEntries(k) ==
    LET p == peersData.peers[k]
    IN  IF Shadowed(peersData.peers, k) THEN {}
        ELSE {Tag(r, p.name, p) : r \in Items(Cached(peerRepos, p.id).items)}

\* The entries of the machine a scope names.
EntriesOf(sel) ==
    IF sel.id = selfId THEN LocalEntries
    ELSE UNION {PeerEntries(k) : k \in {j \in 1..Len(peersData.peers) :
                                           peersData.peers[j].id = sel.id}}

AllEntries == LocalEntries \cup UNION {PeerEntries(k) : k \in 1..Len(peersData.peers)}

\* The selected machine has no cached data.
Unreachable(sel) == sel # NoPeer /\ sel.id # selfId /\ sel.id \notin DOMAIN peerRepos

C14_OneEntryPerMachine ==
    Rendered =>
        \A name \in RepoNames :
            \A j, k \in 1..Len(reposByName(name)) :
                reposByName(name)[j].machineName = reposByName(name)[k].machineName
                    => j = k

\* The card of the displayed entry a shows a row for the version b with
\* this label.
Reports(a, b, label) ==
    \E k \in 1..Len(getOtherMachines(a)) :
        getOtherMachines(a)[k] = b /\ Label(b, a) = label

\* Two versions of one repository name on two different machines.
Clones(a, b) == a.name = b.name /\ a.machineName # b.machineName

\* The label the freshness rule gives the version b seen from a.
Fresher(a, b) ==
    IF TimeOf(b) > TimeOf(a) THEN "NEWER"
    ELSE IF TimeOf(b) < TimeOf(a) THEN "OLDER" ELSE "SYNCED"

\* C15: for two clones of a repository name on two different machines that
\* both have a latest commit, the card of each reports the other: as newer
\* when the other's timestamp is greater, as older when it is smaller, as
\* synced when they are equal; also when one of the two is the local machine.
C15_FreshnessBothWays ==
    Rendered =>
        \A a \in Entries(aggregatedRepos) : \A b \in Entries(AllVersions) :
            (Clones(a, b) /\ a.latestCommit.has /\ b.latestCommit.has)
                => Reports(a, b, Fresher(a, b))

\* The same, for the clones that are on peers.
PeerFreshnessBothWays ==
    Rendered =>
        \A a \in Entries(aggregatedRepos) : \A b \in Entries(AllVersions) :
            (Clones(a, b) /\ a.latestCommit.has /\ b.latestCommit.has /\ b.peer # NoPeer)
                => Reports(a, b, Fresher(a, b))

\* C16: in the freshness comparison a clone without a latest commit is
\* reported as older than a clone of the same name on another machine that
\* has a commit, and the clone with a commit is reported as newer than the
\* commit-less one.
C16_NoCommitIsOlder ==
    Rendered =>
        \A a \in Entries(aggregatedRepos) : \A b \in Entries(AllVersions) :
            (Clones(a, b) /\ b.peer # NoPeer) =>
                /\ (a.latestCommit.has /\ ~b.latestCommit.has) => Reports(a, b, "OLDER")
                /\ (~a.latestCommit.has /\ b.latestCommit.has) => Reports(a, b, "NEWER")

\* Other machines' snapshots a card can be given: none, any one version of
\* the index, or any list of rows another displayed card has.
OtherSnapshots ==
    {<< >>} \cup {<<v>> : v \in Entries(AllVersions)}
    \cup {getOtherMachines(e) : e \in Entries(aggregatedRepos)}

\* C17: the freshness comparison is advisory: whatever the other machines'
\* snapshots are, the mutating operations a card offers and enables are the
\* same; they depend on the repository's own status and on whether an
\* operation is in flight.
C17_FreshnessAdvisory ==
    Rendered =>
        \A a \in Entries(aggregatedRepos) : \A others \in OtherSnapshots :
            \A isPending \in BOOLEAN, typed \in BOOLEAN :
                Operations(a, others, isPending, typed)
                    = Operations(a, getOtherMachines(a), isPending, typed)

\* A displayed clone with a remote that another machine is newer than, so
\* that the comparison changes its status bar.
C17_Witness ==
    /\ Rendered
    /\ \E a \in Entries(aggregatedRepos) :
          /\ hasNewerElsewhere(a, getOtherMachines(a))
          /\ a.status.hasRemote
          /\ getStatusType(a.status, TRUE) # getStatusType(a.status, FALSE)

\* The number of positions of a list that hold the entry e.
Occurrences(list, e) == Cardinality({k \in 1..Len(list) : list[k] = e})

BuiltNow == Built(peersData, localRepos, peerRepos, selectedPeer)

\* C18: the displayed list is ordered by non-increasing latest-commit
\* timestamp, every entry without a latest commit comes after every entry
\* that has one, and the list is a permutation of the built list.
C18_SortedPermutation ==
    Rendered =>
        /\ \A j, k \in 1..Len(aggregatedRepos) :
              j < k =>
                  /\ (aggregatedRepos[j].latestCommit.has /\ aggregatedRepos[k].latestCommit.has)
                        => aggregatedRepos[j].latestCommit.timestamp
                              >= aggregatedRepos[k].latestCommit.timestamp
                  /\ ~aggregatedRepos[j].latestCommit.has
                        => ~aggregatedRepos[k].latestCommit.has
        /\ Len(aggregatedRepos) = Len(BuiltNow)
        /\ \A e \in Entries(BuiltNow) \cup Entries(aggregatedRepos) :
              Occurrences(aggregatedRepos, e) = Occurrences(BuiltNow, e)

\* The sort has moved entries, some with and some without a latest commit.
C18_Witness ==
    /\ Rendered
    /\ aggregatedRepos # BuiltNow
    /\ Len(aggregatedRepos) >= 4
    /\ \E e \in Entries(aggregatedRepos) : ~e.latestCommit.has
    /\ \E e \in Entries(aggregatedRepos) : e.latestCommit.has

\* The entries the scope selects (C13).
InScope == IF selectedPeer = NoPeer THEN AllEntries ELSE EntriesOf(selectedPeer)

\* C19: the summary statistics are those of the displayed list: total is the
\* number of displayed entries, clean + modified = total, ahead and behind
\* count the displayed entries with ahead > 0 and with behind > 0, and the
\* entries the scope excludes count nowhere.
C19_StatsOfDisplayed ==
    (peersData.loaded /\ Rendered) =>
        /\ stats.total = Len(aggregatedRepos)
        /\ stats.clean + stats.modified = stats.total
        /\ stats.clean = Cardinality({e \in InScope : e.status.isClean})
        /\ stats.ahead = Cardinality({e \in InScope : e.status.ahead > 0})
        /\ stats.behind = Cardinality({e \in InScope : e.status.behind > 0})
        /\ stats.ahead =
              Cardinality({k \in 1..Len(aggregatedRepos) : aggregatedRepos[k].status.ahead > 0})
        /\ stats.behind =
              Cardinality({k \in 1..Len(aggregatedRepos) : aggregatedRepos[k].status.behind > 0})

\* A scope on one machine that leaves out entries that are modified, ahead
\* and behind, while the displayed list has such entries too.
C19_Witness ==
    /\ Rendered
    /\ selectedPeer # NoPeer
    /\ stats.modified > 0 /\ stats.ahead > 0 /\ stats.behind > 0
    /\ StatsOf(AllVersions).modified > stats.modified
    /\ StatsOf(AllVersions).ahead > stats.ahead
    /\ StatsOf(AllVersions).total > stats.total

\* C32: the completion of a fetch for a peer writes that peer's result under
\* that peer's id, in full, and leaves the cached results and the pending
\* requests of the other peers as they were, in whatever order the
\* completions come.
C32_Step ==
    peerRepos' # peerRepos =>
        \E id \in DOMAIN requests :
            /\ requests[id] = "pending"
            /\ DOMAIN peerRepos' = DOMAIN peerRepos \cup {id}
            /\ \A q \in DOMAIN peerRepos \ {id} : peerRepos'[q] = peerRepos[q]
            /\ DOMAIN requests' = DOMAIN requests \ {id}
            /\ \A q \in DOMAIN requests' : requests'[q] = requests[q]
            /\ loadingPeers' = loadingPeers \ {id}

C32_Held ==
    \A id \in DOMAIN peerRepos :
        /\ id \in DOMAIN fetchResult
        /\ fetchResult[id] = "ok" => peerRepos[id] \in PeerLists200(id)
        /\ fetchResult[id] = "malformed" => peerRepos[id] = ObjectBody
        /\ fetchResult[id] = "threw" => peerRepos[id] = ListBody(<< >>)

C32_NoLostUpdate == []C32_Held /\ [][C32_Step]_vars

\* The fetches to two machines have both completed and both results are
\* cached, each under its own peer.
C32_Witness ==
    /\ {"m1-3847", "m2-3848"} \subseteq DOMAIN peerRepos
    /\ fetchResult["m1-3847"] = "ok" /\ fetchResult["m2-3848"] = "ok"
    /\ peerRepos["m1-3847"] # peerRepos["m2-3848"]
    /\ requests = EmptyMap

\* C33: when the peer directory delivers a peer that the previous one did
\* not list, nothing cached before is kept for it and a fetch is issued for
\* it, so that its entries come from a fetch issued after it appeared.
C33_Step ==
    (peersData.loaded /\ peersData'.peers # peersData.peers) =>
        \A id \in SeqIds(UniquePeers(peersData'.peers)) \ SeqIds(peersData.peers) :
            id \in loadingPeers' \/ id \notin DOMAIN peerRepos'

C33_NoStaleAfterReturn == [][C33_Step]_vars

\* A peer that was never listed before is fetched when it appears.
NewPeerFetched ==
    [][(peersData.loaded /\ peersData'.peers # peersData.peers) =>
          \A id \in SeqIds(UniquePeers(peersData'.peers)) \ SeqIds(peersData.peers) :
              (id \notin DOMAIN peerRepos /\ id \notin loadingPeers) => id \in loadingPeers']_vars

ListNext ==
    \/ \E ps \in PeerLists : \E silent \in SUBSET SeqIds(ps) : PeersLoaded(ps, silent)
    \/ \E id \in DOMAIN requests : \E body \in PeerLists200(id) : FetchOk(id, body)
    \/ \E id \in DOMAIN requests : FetchOtherJson(id)
    \/ \E id \in DOMAIN requests : FetchNotOk(id)
    \/ \E id \in DOMAIN requests : FetchThrows(id)
    \/ \E list \in LocalLists : LocalLoaded(list)
    \/ LocalFailed
    \/ \E peer \in Selectable : SelectPeer(peer)

ListSpec == Init /\ [][ListNext]_vars

\* A request that is answered, with whatever outcome, settles its promise,
\* and the continuation of fetchPeerRepos runs.
Settles(id) ==
    \/ \E body \in PeerLists200(id) : FetchOk(id, body)
    \/ FetchOtherJson(id)
    \/ FetchNotOk(id)
    \/ FetchThrows(id)

ListFairSpec ==
    ListSpec /\ \A id \in {q.id : q \in PeerUniverse} : WF_vars(Settles(id))

(***************************************************************************)
(* Push channel: the /ws endpoint and the broadcast of 'change'            *)
(***************************************************************************)
Frame(type, machine, repo, snapshot) ==
    [type |-> type, machine |-> machine, repo |-> repo, snapshot |-> snapshot]

\* { type: 'connected', machine: config.machineName }
ConnectedFrame == Frame("connected", machineName, "", 0)
\* { type: 'repo-changed', repo: { ...repo, status, latestCommit } }: the
\* identity of repository r with the status and the latest commit computed
\* by the handler of its n-th 'change' event.
RepoChangedFrame(r, n) == Frame("repo-changed", "", r, n)
\* { type: 'pong' }
PongFrame == Frame("pong", "", "", 0)

\* A connection handler that sends no confirmation.
HandshakeOmitted(q) == q

\* socket.send of the confirmation, the last statement of the handler.
Handshake(q) == Append(q, ConnectedFrame)

\* The '/ws' handler, for a connection the server has just accepted: it
\* runs to its end before any other callback.
Connect(s) ==
    /\ readyState[s] = "NONE"
    /\ clients' = clients \cup {s}
    /\ readyState' = [readyState EXCEPT ![s] = "OPEN"]
    /\ frames' = [frames EXCEPT ![s] = Handshake(@)]
    /\ UNCHANGED <<now, lastOp, inFlight, changes, watcherVars, discoveryVars, listVars, observerVars, scanVars>>

\* The closing handshake starts: the socket is no longer OPEN, its 'close'
\* event has not been emitted yet.
BeginClose(s) ==
    /\ readyState[s] = "OPEN"
    /\ readyState' = [readyState EXCEPT ![s] = "CLOSING"]
    /\ UNCHANGED <<now, lastOp, clients, frames, inFlight, changes,
                   watcherVars, discoveryVars, listVars, observerVars, scanVars>>

\* socket.on('close')
OnClose(s) ==
    /\ readyState[s] \in {"OPEN", "CLOSING"}
    /\ clients' = clients \ {s}
    /\ readyState' = [readyState EXCEPT ![s] = "CLOSED"]
    /\ UNCHANGED <<now, lastOp, frames, inFlight, changes,
                   watcherVars, discoveryVars, listVars, observerVars, scanVars>>

\* What an observer can send: a ping, another JSON message, JSON null, bytes
\* that are no JSON.
Messages == {"ping", "other", "null", "invalid"}

\* A message handler that answers every message.
ReplyAlways(q, msg) == Append(q, PongFrame)

\* The body of the message handler on the frames of its socket: JSON.parse,
\* then a pong when msg.type is 'ping'; a parse error and the TypeError of
\* null.type end in the empty catch block.
Reply(q, msg) == IF msg = "ping" THEN Append(q, PongFrame) ELSE q

\* socket.on('message')
OnMessage(s, msg) ==
    /\ readyState[s] = "OPEN"
    /\ Len(frames[s]) < MaxFrames
    /\ frames' = [frames EXCEPT ![s] = Reply(@, msg)]
    /\ UNCHANGED <<now, lastOp, clients, readyState, inFlight, changes,
                   watcherVars, discoveryVars, listVars, observerVars, scanVars>>

\* The number of 'change' events the watcher has emitted for these repositories.
RECURSIVE EventsEmitted(_)
EventsEmitted(ids) ==
    IF ids = {} THEN 0
    ELSE LET r == CHOOSE x \in ids : TRUE IN changes[r] + EventsEmitted(ids \ {r})

\* watcher.on('change'): the handler of the next 'change' event of the
\* repository starts and awaits getStatus and getLatestCommit.
OnChange(r) ==
    /\ EventsEmitted(RepoIds) < MaxChanges
    /\ Cardinality(inFlight[r]) < MaxInFlight
    /\ changes' = [changes EXCEPT ![r] = @ + 1]
    /\ inFlight' = [inFlight EXCEPT ![r] = @ \cup {changes[r] + 1}]
    /\ UNCHANGED <<now, lastOp, clients, readyState, frames,
                   watcherVars, discoveryVars, listVars, observerVars, scanVars>>

\* A broadcast loop without the readyState test.
EveryClient == clients

\* The sockets the broadcast loop sends to.
OpenClients == {s \in clients : readyState[s] = "OPEN"}

\* A broadcast loop that stops after the first client.
SendToFirst(fr, msg) ==
    IF OpenClients = {} THEN fr
    ELSE LET s == CHOOSE x \in OpenClients : TRUE
         IN  [fr EXCEPT ![s] = Append(@, msg)]

\* The broadcast loop: one send to every client that is OPEN.
SendToAll(fr, msg) ==
    [s \in Sockets |-> IF s \in OpenClients THEN Append(fr[s], msg) ELSE fr[s]]

\* The handler of the n-th 'change' event of r resumes with the status (each
\* handler runs its own git processes, so the handlers of one repository end
\* in any order) and sends the frame to every client that is OPEN.
Broadcast(r, n) ==
    /\ n \in inFlight[r]
    /\ \A s \in OpenClients : Len(frames[s]) < MaxFrames
    /\ inFlight' = [inFlight EXCEPT ![r] = @ \ {n}]
    /\ frames' = SendToAll(frames, RepoChangedFrame(r, n))
    /\ UNCHANGED <<now, lastOp, clients, readyState, changes,
                   watcherVars, discoveryVars, listVars, observerVars, scanVars>>

\* getStatus or getLatestCommit rejects: the catch block, nothing is sent.
StatusFails(r, n) ==
    /\ n \in inFlight[r]
    /\ inFlight' = [inFlight EXCEPT ![r] = @ \ {n}]
    /\ UNCHANGED <<now, lastOp, clients, readyState, frames, changes,
                   watcherVars, discoveryVars, listVars, observerVars, scanVars>>

\* C20: on every accepted connection the first frame the observer receives
\* is the confirmation frame ('connected' with the machine name): a socket
\* that was accepted has it at the head of its frames, and no 'repo-changed'
\* frame precedes it.
C20_ConfirmationFirst ==
    \A s \in Sockets :
        /\ readyState[s] # "NONE" => (frames[s] # << >> /\ frames[s][1] = ConnectedFrame)
        /\ \A k \in 1..Len(frames[s]) :
              frames[s][k].type = "repo-changed" =>
                  \E j \in 1..(k - 1) : frames[s][j] = ConnectedFrame

\* An observer has received the confirmation and then a change; another
\* connected after that broadcast, while a change handler is awaiting.
C20_Witness ==
    \E s, t \in Sockets :
        /\ s # t
        /\ Len(frames[s]) >= 2 /\ frames[s][2].type = "repo-changed"
        /\ frames[t] = <<ConnectedFrame>> /\ readyState[t] = "OPEN"
        /\ \E r \in RepoIds : inFlight[r] # {}

\* The number of frames of a socket that are the given frame.
Sent(s, f) == Cardinality({k \in 1..Len(frames[s]) : frames[s][k] = f})

C21_Step ==
    \A r \in RepoIds : \A n \in 1..MaxChanges :
        /\ Broadcast(r, n) =>
              \A s \in Sockets :
                  frames'[s] = IF s \in clients /\ readyState[s] = "OPEN"
                               THEN Append(frames[s], RepoChangedFrame(r, n))
                               ELSE frames[s]
        /\ StatusFails(r, n) =>
              /\ frames' = frames
              /\ clients' = clients /\ readyState' = readyState
              /\ \A q \in RepoIds : inFlight'[q] = inFlight[q] \ (IF q = r THEN {n} ELSE {})

\* C21: when the status recomputation of a 'change' event succeeds, every
\* observer that is connected and open at broadcast time is sent exactly one
\* 'repo-changed' frame with the repository's identity and the recomputed
\* snapshot, and nobody else is sent anything; when it fails no frame is sent
\* and the handlers of the other events go on.
C21_BroadcastToOpenClients == [][C21_Step]_vars

\* Two open observers have each received exactly one frame for the first
\* change of r1, and the change of r2 has ended without any frame.
C21_Witness ==
    /\ \A s \in Sockets :
          readyState[s] = "OPEN" /\ Sent(s, RepoChangedFrame("r1", 1)) = 1
    /\ changes["r2"] = 1 /\ inFlight["r2"] = {}
    /\ \A s \in Sockets : Sent(s, RepoChangedFrame("r2", 1)) = 0

\* C24: for each repository the 'repo-changed' frames reach an observer in
\* the order the watcher emitted the 'change' events, so that the last frame
\* an observer has for a repository is that of the latest event handled.
C24_PerRepoOrder ==
    \A s \in Sockets : \A j, k \in 1..Len(frames[s]) :
        (/\ j < k
         /\ frames[s][j].type = "repo-changed" /\ frames[s][k].type = "repo-changed"
         /\ frames[s][j].repo = frames[s][k].repo)
            => frames[s][j].snapshot < frames[s][k].snapshot

C28_Step ==
    \A s \in Sockets : \A msg \in Messages :
        OnMessage(s, msg) =>
            /\ frames'[s] = IF msg = "ping" THEN Append(frames[s], PongFrame) ELSE frames[s]
            /\ \A t \in Sockets \ {s} : frames'[t] = frames[t]
            /\ clients' = clients /\ readyState' = readyState /\ inFlight' = inFlight

\* C28: each 'ping' the server receives on a connection is answered with
\* exactly one 'pong' on that connection and on no other; every other inbound
\* frame produces no reply and changes no state.
C28_PingPong == [][C28_Step]_vars

\* One of two open connections has been answered a pong, the other none.
C28_Witness ==
    \E s, t \in Sockets :
        /\ readyState[s] = "OPEN" /\ readyState[t] = "OPEN"
        /\ Sent(s, PongFrame) = 1 /\ Sent(t, PongFrame) = 0

\* C38: the client set holds the accepted connections whose 'close' event
\* has not fired, whether they are still open or closing, and a frame is
\* only ever sent on a connection that is in the set and open.
C38_Step ==
    \A s \in Sockets :
        frames'[s] # frames[s] =>
            /\ readyState'[s] = "OPEN" /\ s \in clients'
            /\ Last(frames'[s]).type = "repo-changed" => (readyState[s] = "OPEN" /\ s \in clients)

C38_ClientSetExact ==
    /\ [](clients = {s \in Sockets : readyState[s] \in {"OPEN", "CLOSING"}})
    /\ [][C38_Step]_vars

\* A broadcast reached the open connection and not the one that is closing
\* or closed.
C38_Witness ==
    \E s, t \in Sockets :
        /\ readyState[s] = "OPEN" /\ s \in clients
        /\ readyState[t] \in {"CLOSING", "CLOSED"}
        /\ readyState[t] = "CLOSED" => t \notin clients
        /\ \E k \in 1..Len(frames[s]) :
              /\ frames[s][k].type = "repo-changed"
              /\ \A j \in 1..Len(frames[t]) : frames[t][j] # frames[s][k]

ChannelNext ==
    \/ \E s \in Sockets : Connect(s)
    \/ \E s \in Sockets : BeginClose(s)
    \/ \E s \in Sockets : OnClose(s)
    \/ \E s \in Sockets, msg \in Messages : OnMessage(s, msg)
    \/ \E r \in RepoIds : OnChange(r)
    \/ \E r \in RepoIds : \E n \in inFlight[r] : Broadcast(r, n)
    \/ \E r \in RepoIds : \E n \in inFlight[r] : StatusFails(r, n)

ChannelSpec == Init /\ [][ChannelNext]_vars

(***************************************************************************)
(* Observer: the useWebSocket hook of the App                              *)
(***************************************************************************)
\* The delay of the reconnect timer.
reconnectMs == 3000

\* The peer directory and the peer lists the page has loaded when the
\* observer is looked at: the peer m1 is listed and its list is cached.
ObserverPeer == [id |-> "m1-3847", name |-> "m1", host |-> "h1", port |-> 3847]

ObserverInit ==
    /\ now = 0
    /\ lastOp = Other
    /\ InitWatcher
    /\ InitDiscovery
    /\ InitChannel
    /\ InitObserver
    /\ InitScanner
    /\ peersData = [loaded |-> TRUE, peers |-> <<ObserverPeer>>]
    /\ localRepos = [isLoading |-> TRUE, error |-> FALSE, hasData |-> FALSE, data |-> << >>]
    /\ peerRepos \in {[id \in {ObserverPeer.id} |-> body] : body \in PeerLists200(ObserverPeer.id)}
    /\ loadingPeers = {}
    /\ selectedPeer = NoPeer
    /\ requests = EmptyMap
    /\ fetchResult = [id \in {ObserverPeer.id} |-> "ok"]

\* The query key the handlers of a connection created for this target
\* write to: ['repos', peerHost, peerPort].
LocalKey == "repos"
QueryKey(target) ==
    IF target = NoPeer THEN LocalKey ELSE "repos:" \o HostPort(target)

\* The data the query cache holds under a key. The only 'repos' query the
\* page ever runs is useRepos() of RepoList, under the key of no target.
HasQueryData(key) == key = LocalKey /\ localRepos.hasData

\* A frame as it reaches ws.onmessage. parse: "ok" (JSON.parse returns an
\* object), "null" (it returns null), "invalid" (it throws). hasRepo: the
\* object has a truthy repo field.
InFrame(parse, type, hasRepo, repo) ==
    [parse |-> parse, type |-> type, hasRepo |-> hasRepo, repo |-> repo]

NoRepo == Repo("", "", Clean, NoCommit)

\* The snapshot a machine pushes after a change of one of its repositories.
Pushed(id, name) == Repo(id, name, Status(FALSE, 1, 0, TRUE, 0), Commit(400))

\* An object that has an id and none of the other fields of a snapshot
\* (they read as undefined).
IdOnly(id) == Repo(id, "", Clean, NoCommit)

\* The repository of a machine that changes, by target.
ChangingRepo(target) == IF target = ObserverPeer THEN "b1" ELSE "a1"

WellFormedFrames(target) ==
    { InFrame("ok", "repo-changed", TRUE, Pushed(ChangingRepo(target), "proj")),
      InFrame("ok", "repo-changed", TRUE, Pushed("zz", "gone")),
      InFrame("ok", "connected", FALSE, NoRepo),
      InFrame("ok", "pong", FALSE, NoRepo) }

MalformedFrames(target) ==
    { InFrame("invalid", "", FALSE, NoRepo),
      InFrame("null", "", FALSE, NoRepo),
      InFrame("ok", "", FALSE, NoRepo),
      InFrame("ok", "repo-changed", FALSE, NoRepo),
      InFrame("ok", "repo-changed", TRUE, IdOnly(ChangingRepo(target))) }

Inbound(target) == WellFormedFrames(target) \cup MalformedFrames(target)

\* An updater that adds the snapshot when no entry has its id.
ReplaceOrAppend(oldData, repo) ==
    IF \E k \in 1..Len(oldData) : oldData[k].id = repo.id
    THEN [k \in 1..Len(oldData) |-> IF oldData[k].id = repo.id THEN repo ELSE oldData[k]]
    ELSE Append(oldData, repo)

\* oldData.map((repo) => repo.id === msg.repo.id ? msg.repo : repo)
ReplaceById(oldData, repo) ==
    [k \in 1..Len(oldData) |-> IF oldData[k].id = repo.id THEN repo ELSE oldData[k]]

\* The frames the message handler passes to setQueryData.
Applies(f) == f.parse = "ok" /\ f.type = "repo-changed" /\ f.hasRepo

\* Reconnect timers: a handler that arms none.
RearmNever(t, c) == t

\* window.setTimeout(() => connect(), 3000)
Rearm(t, c) == [t EXCEPT ![c] = reconnectMs]

\* ws.onclose of the socket of connection c, for whatever reason it closed.
onclose(c) ==
    /\ phase' = [phase EXCEPT ![c] = "CLOSED"]
    /\ wsRef' = -1
    /\ timer' = Rearm(timer, c)
    /\ reconnectRef' = c
    /\ lastOp' = Other
    /\ UNCHANGED <<now, mounted, gen, chainTarget, pingInterval, reachable,
                   watcherVars, discoveryVars, listVars, channelVars, scanVars>>

\* The connection is established (ws.onopen only logs).
Opens(c) ==
    /\ phase[c] = "CONNECTING"
    /\ reachable
    /\ phase' = [phase EXCEPT ![c] = "OPEN"]
    /\ lastOp' = Other
    /\ UNCHANGED <<now, mounted, gen, chainTarget, wsRef, reconnectRef, timer,
                   pingInterval, reachable,
                   watcherVars, discoveryVars, listVars, channelVars, scanVars>>

\* The connection attempt fails: the socket closes without having opened.
ConnectFails(c) == phase[c] = "CONNECTING" /\ ~reachable /\ onclose(c)

\* An open connection closes unexpectedly.
Drop(c) == phase[c] = "OPEN" /\ onclose(c)

\* The close event of a socket the cleanup has called close() on.
CloseEvent(c) == phase[c] = "CLOSING" /\ onclose(c)

\* The reconnect timer of connection c fires: connect(), as closed over by
\* the effect run that created c, opens a new socket to the same target.
ReconnectFires(c) ==
    /\ timer[c] > 0
    /\ timer' = [timer EXCEPT ![c] = 0]
    /\ phase' = [phase EXCEPT ![c] = "CONNECTING"]
    /\ wsRef' = c
    /\ lastOp' = Other
    /\ UNCHANGED <<now, mounted, gen, chainTarget, reconnectRef, pingInterval,
                   reachable, watcherVars, discoveryVars, listVars, channelVars, scanVars>>

\* The cleanup of the effect on the timers: clearTimeout of the timer in
\* reconnectTimeoutRef.
CleanupTimers == [c \in DOMAIN timer |-> IF c = reconnectRef THEN 0 ELSE timer[c]]

\* The cleanup of the effect on the sockets: close() of the socket in wsRef.
CleanupSockets ==
    [c \in DOMAIN phase |->
        IF c = wsRef /\ phase[c] \in {"CONNECTING", "OPEN"} THEN "CLOSING" ELSE phase[c]]

\* The selected peer changes to one with another host or port: the effect is
\* cleaned up and runs again with the new connect().
Retarget(peer) ==
    /\ mounted
    /\ gen < MaxRetargets
    /\ peer \in Selectable
    /\ QueryKey(peer) # QueryKey(selectedPeer)
    /\ selectedPeer' = peer
    /\ gen' = gen + 1
    /\ chainTarget' = [chainTarget EXCEPT ![gen + 1] = peer]
    /\ timer' = CleanupTimers
    /\ phase' = [CleanupSockets EXCEPT ![gen + 1] = "CONNECTING"]
    /\ wsRef' = gen + 1
    /\ pingInterval' = gen + 1
    /\ lastOp' = Other
    /\ UNCHANGED <<now, mounted, reconnectRef, reachable,
                   peersData, localRepos, peerRepos, loadingPeers, requests, fetchResult,
                   watcherVars, discoveryVars, channelVars, scanVars>>

\* The hook is torn down: the cleanup of the effect runs.
Unmount ==
    /\ mounted
    /\ mounted' = FALSE
    /\ timer' = CleanupTimers
    /\ phase' = CleanupSockets
    /\ pingInterval' = -1
    /\ lastOp' = Other
    /\ UNCHANGED <<now, gen, chainTarget, wsRef, reconnectRef, reachable,
                   watcherVars, discoveryVars, listVars, channelVars, scanVars>>

\* The 30 s interval: a ping on the socket in wsRef when it is open.
PingTick ==
    /\ pingInterval # -1
    /\ wsRef # -1 /\ phase[wsRef] = "OPEN"
    /\ lastOp' = [op |-> "ping", id |-> "", hit |-> wsRef, rep |-> FALSE]
    /\ UNCHANGED <<now, mounted, gen, chainTarget, phase, wsRef, reconnectRef,
                   timer, pingInterval, reachable,
                   watcherVars, discoveryVars, listVars, channelVars, scanVars>>

\* The well-formed 'repo-changed' frames of a connection.
Pushes(c) == {f \in WellFormedFrames(chainTarget[c]) : f.type = "repo-changed"}

\* The log entry of a handled frame: the well-formed 'repo-changed' frames
\* are logged with their id and their connection.
Handled(c, f) ==
    IF f \in Pushes(c)
    THEN [op |-> "repo-changed", id |-> f.repo.id, hit |-> c, rep |-> FALSE]
    ELSE Other

\* ws.onmessage of the socket of connection c.
OnFrame(c, f) ==
    /\ phase[c] = "OPEN"
    /\ f \in Inbound(chainTarget[c])
    /\ localRepos' =
          IF Applies(f) /\ HasQueryData(QueryKey(chainTarget[c]))
          THEN [localRepos EXCEPT !.data = ReplaceById(@, f.repo)]
          ELSE localRepos
    /\ lastOp' = Handled(c, f)
    /\ UNCHANGED <<now, observerVars, peersData, peerRepos, loadingPeers,
                   selectedPeer, requests, fetchResult,
                   watcherVars, discoveryVars, channelVars, scanVars>>

\* The servers become reachable or unreachable.
SetReachable(b) ==
    /\ reachable # b
    /\ reachable' = b
    /\ lastOp' = Other
    /\ UNCHANGED <<now, mounted, gen, chainTarget, phase, wsRef, reconnectRef,
                   timer, pingInterval,
                   watcherVars, discoveryVars, listVars, channelVars, scanVars>>

Chains == 0..MaxRetargets

ObserverNext ==
    \/ \E c \in Chains : Opens(c)
    \/ \E c \in Chains : ConnectFails(c)
    \/ \E c \in Chains : Drop(c)
    \/ \E c \in Chains : CloseEvent(c)
    \/ \E c \in Chains : ReconnectFires(c)
    \/ \E peer \in Selectable : Retarget(peer)
    \/ Unmount
    \/ PingTick
    \/ \E c \in Chains : \E f \in Inbound(chainTarget[c]) : OnFrame(c, f)
    \/ \E b \in BOOLEAN : SetReachable(b)
    \/ \E list \in LocalLists : LocalLoaded(list)

ObserverSpec == ObserverInit /\ [][ObserverNext]_vars

\* A connection that can open does open, and a timer that is armed fires.
ObserverFairSpec ==
    ObserverSpec /\ \A c \in Chains : WF_vars(Opens(c)) /\ WF_vars(ReconnectFires(c))

\* The entries of a list that belong to the machine a connection targets.
OfMachine(list, target) ==
    {e \in Entries(list) :
        e.peer = (IF target = NoPeer \/ target.id = SelfPeer.id THEN NoPeer ELSE target)}

\* C22: applying a 'repo-changed' frame for the id r to the list cached under
\* the key of the connection replaces the entry with the id r by the
\* received snapshot, every field intact, and leaves the other entries, the
\* length and the order as they were; with no entry of that id, or with no
\* list cached, the cache is unchanged.
C22_Step ==
    \A c \in Chains : \A f \in Pushes(c) :
        OnFrame(c, f) =>
            /\ peerRepos' = peerRepos
            /\ localRepos'.hasData = localRepos.hasData
            /\ IF HasQueryData(QueryKey(chainTarget[c]))
               THEN /\ Len(localRepos'.data) = Len(localRepos.data)
                    /\ \A k \in 1..Len(localRepos.data) :
                          localRepos'.data[k] =
                              IF localRepos.data[k].id = f.repo.id
                              THEN f.repo
                              ELSE localRepos.data[k]
               ELSE localRepos' = localRepos

C22_FrameReplacesEntry == [][C22_Step]_vars

C22_Witness ==
    /\ localRepos.hasData
    /\ Len(localRepos.data) = 3
    /\ localRepos.data[1] = Pushed("a1", "proj")
    /\ localRepos.data[2].id = "a2"

\* The snapshot of the 'repo-changed' frame for an id on a connection.
SnapshotOf(c, id) == (CHOOSE f \in Pushes(c) : f.repo.id = id).repo

\* C23: right after the connection of the current run of the effect has
\* delivered a 'repo-changed' frame of its machine for the id r, every entry
\* the aggregated view shows for that machine with the id r carries the
\* pushed snapshot.
C23_ViewShowsPushedSnapshot ==
    (mounted /\ lastOp.op = "repo-changed" /\ lastOp.hit = gen) =>
        \A e \in OfMachine(aggregatedRepos, chainTarget[gen]) :
            e.id = lastOp.id =>
                /\ e.name = SnapshotOf(gen, lastOp.id).name
                /\ e.status = SnapshotOf(gen, lastOp.id).status
                /\ e.latestCommit = SnapshotOf(gen, lastOp.id).latestCommit

\* The same for an observer whose scope is every machine: its connection is
\* to the local machine and writes to the key RepoList reads.
LocalPushShown ==
    (mounted /\ lastOp.op = "repo-changed" /\ lastOp.hit = gen /\ chainTarget[gen] = NoPeer) =>
        \A e \in OfMachine(aggregatedRepos, NoPeer) :
            e.id = lastOp.id => e.latestCommit = SnapshotOf(gen, lastOp.id).latestCommit

\* Connections an earlier run of the effect created, or any once the hook is
\* torn down.
Torn(c) == phase[c] # "NEW" /\ (c < gen \/ ~mounted)

\* C25: every close of a socket that was opening or open arms a reconnect
\* timer of 3000 ms, whatever the number of earlier attempts, the timer
\* starts a new attempt when it fires, and the current connection is open
\* again and again while the hook is mounted and the servers are reachable.
C25_Step ==
    \A c \in Chains :
        /\ (Drop(c) \/ ConnectFails(c) \/ CloseEvent(c)) => timer'[c] = reconnectMs
        /\ ReconnectFires(c) => phase'[c] = "CONNECTING" /\ chainTarget'[c] = chainTarget[c]
        /\ timer'[c] \in {0, reconnectMs}

C25_ReconnectsEvery3s ==
    /\ [][C25_Step]_vars
    /\ []<>(~reachable \/ ~mounted \/ phase[gen] = "OPEN")

C25_Witness == mounted /\ reachable /\ phase[gen] = "CLOSED" /\ timer[gen] = reconnectMs

\* C26: once the hook is torn down or retargeted, the ping interval of the
\* old run is cleared, no reconnect timer of an old connection is pending
\* and no old connection is opening or open.
C26_NoAttemptAfterTeardown ==
    /\ ~mounted => pingInterval = -1
    /\ mounted => pingInterval = gen
    /\ \A c \in Chains :
          Torn(c) => timer[c] = 0 /\ phase[c] \in {"CLOSING", "CLOSED"}

\* The connections with a socket that is opening or open, and those with a
\* pending reconnect timer.
Alive == {c \in Chains : phase[c] \in {"CONNECTING", "OPEN"}}
Waiting == {c \in Chains : timer[c] > 0}

\* C39: the observer has at most one socket that is opening or open and at
\* most one pending reconnect timer, and no timer is pending while a socket
\* is open.
C39_OneConnection ==
    /\ Cardinality(Alive) <= 1
    /\ Cardinality(Waiting) <= 1
    /\ Waiting # {} => \A c \in Chains : phase[c] # "OPEN"

\* The same within the connection of one run of the effect: its socket is
\* never opening or open while its timer is pending.
OneSocketPerRun == \A c \in Chains : timer[c] > 0 => phase[c] = "CLOSED"

\* C27: a malformed frame that reaches the observer is dropped: the cache is
\* unchanged, the connection stays open and nothing is sent.
C27_Step ==
    \A c \in Chains : \A f \in MalformedFrames(chainTarget[c]) :
        OnFrame(c, f) =>
            /\ localRepos' = localRepos
            /\ peerRepos' = peerRepos
            /\ phase'[c] = "OPEN"
            /\ lastOp'.op # "ping"

C27_MalformedDropped == [][C27_Step]_vars

\* The frames the handler rejects by itself, the unparseable one, null, and
\* the objects without a type or without a repo, are dropped.
UnappliedDropped ==
    [][\A c \in Chains : \A f \in MalformedFrames(chainTarget[c]) :
          (OnFrame(c, f) /\ ~Applies(f)) => localRepos' = localRepos /\ phase'[c] = "OPEN"]_vars

(***************************************************************************)
(* RepoScanner, the initial scan of main and the rescan route              *)
(***************************************************************************)
\* The life of the scanner's cache.
scanInterval == 30000

ScanDelays == {10000, 20000}

\* The path scanDirectory builds for each repository under the scan paths:
\* join(dirPath, entry.name), in the order readdir lists the entries.
ScanOrder == <<"r1", "r2">>

PathOf(r) == IF r = "r1" THEN "/home/u/Code/app" ELSE "/home/u/Code/lib/app"

\* The entries config.manualRepos may hold: the paths above, and the first
\* one spelled with a trailing separator, which expandPath keeps as written.
ManualPaths == {"/home/u/Code/app", "/home/u/Code/app/", "/home/u/Code/lib/app"}

ManualConfigs ==
    {<< >>,
     <<"/home/u/Code/app">>,
     <<"/home/u/Code/app/">>,
     <<"/home/u/Code/lib/app", "/home/u/Code/app">>,
     <<"/home/u/Code/app/", "/home/u/Code/app/">>}

\* The directory a path names.
DirOf(path) == IF path = "/home/u/Code/lib/app" THEN "r2" ELSE "r1"

\* basename(path) of node:path: the last segment, trailing separators ignored.
basename(path) == "app"

\* An id taken from the name of the directory instead of its path.
generateRepoIdFromName(path) == basename(path)

\* createHash('sha256').update(path).digest('hex').slice(0, 12), on the
\* paths above.
generateRepoId(path) ==
    CASE path = "/home/u/Code/app"     -> "6f2b836c454a"
      [] path = "/home/u/Code/lib/app" -> "9d2701cdb5ef"
      [] path = "/home/u/Code/app/"    -> "1ec03d662f65"

RepoInfo(path) == [id |-> generateRepoId(path), name |-> basename(path), path |-> path]

\* isGitRepo(dirPath): the directory has a .git directory.
isGitRepo(path, d) == DirOf(path) \in d

\* scanDirectory over the scan paths, the repositories on disk being d.
scanDirectory(d) ==
    LET found == SelectSeq(ScanOrder, LAMBDA r : r \in d)
    IN  [k \in 1..Len(found) |-> RepoInfo(PathOf(found[k]))]

\* The manually configured repositories that are git repositories.
ManualFound(manual, d) ==
    LET there == SelectSeq(manual, LAMBDA path : isGitRepo(path, d))
    IN  [k \in 1..Len(there) |-> RepoInfo(there[k])]

\* The filter of scan: the first entry of every path.
RECURSIVE DedupeByPath(_, _, _)
DedupeByPath(all, k, seen) ==
    IF k > Len(all) THEN << >>
    ELSE IF all[k].path \in seen THEN DedupeByPath(all, k + 1, seen)
    ELSE <<all[k]>> \o DedupeByPath(all, k + 1, seen \cup {all[k].path})

Walk(d, manual) == DedupeByPath(scanDirectory(d) \o ManualFound(manual, d), 1, {})

\* scan(force) on the scanner: the cached list while it is fresh and not
\* empty, a new walk of the scan paths otherwise.
Fresh(force) == ~force /\ cachedRepos # {} /\ now - lastScan < scanInterval

ScanResult(force) == IF Fresh(force) THEN cachedRepos ELSE disk

ScanList(force) == IF Fresh(force) THEN repoList ELSE Walk(disk, manualRepos)

ScanTime(force) == IF Fresh(force) THEN lastScan ELSE now

\* main: loadConfig, the initial scan, then watcher.watchRepos(repos).
Startup(manual) ==
    /\ ~started
    /\ started' = TRUE
    /\ manualRepos' = manual
    /\ cachedRepos' = ScanResult(FALSE)
    /\ repoList' = Walk(disk, manual)
    /\ lastScan' = ScanTime(FALSE)
    /\ SetWatcherState(Reconcile(WatcherState, ScanResult(FALSE), {}, {}))
    /\ lastOp' = Op("startup", "", now)
    /\ UNCHANGED <<now, disk, discoveryVars, listVars, channelVars, observerVars>>

\* POST /api/repos/scan (force) and the routes that call scan().
Scan(force) ==
    /\ started
    /\ cachedRepos' = ScanResult(force)
    /\ repoList' = ScanList(force)
    /\ lastScan' = ScanTime(force)
    /\ lastOp' = Op(IF force THEN "rescan" ELSE "scan", "", now)
    /\ UNCHANGED <<now, started, disk, manualRepos, watcherVars, discoveryVars, listVars,
                   channelVars, observerVars>>

\* The entry of the detailed list for a repository whose status and latest
\* commit were obtained.
WithStatus(repo) == [id |-> repo.id, name |-> repo.name, path |-> repo.path, status |-> "known"]

\* The loop of GET /api/repos/detailed over the scanned repositories, the
\* repositories of failing being those for which getStatus or
\* getLatestCommit rejects.
DetailedList(repos, failing) ==
    LET pushed == SelectSeq(repos, LAMBDA repo : DirOf(repo.path) \notin failing)
    IN  [k \in 1..Len(pushed) |-> WithStatus(pushed[k])]

\* GET /api/repos/detailed.
Detailed(statusFails, commitFails) ==
    /\ started
    /\ cachedRepos' = ScanResult(FALSE)
    /\ repoList' = ScanList(FALSE)
    /\ lastScan' = ScanTime(FALSE)
    /\ lastOp' = [op |-> "detailed", id |-> "", hit |-> -1, rep |-> FALSE,
                  failing |-> statusFails \cup commitFails,
                  body |-> DetailedList(ScanList(FALSE), statusFails \cup commitFails)]
    /\ UNCHANGED <<now, started, disk, manualRepos, watcherVars, discoveryVars, listVars,
                   channelVars, observerVars>>

\* Repositories are created or deleted under the scan paths.
DiskChange(ids) ==
    /\ ids # disk
    /\ disk' = ids
    /\ lastOp' = Other
    /\ UNCHANGED <<now, started, cachedRepos, lastScan, manualRepos, repoList, watcherVars,
                   discoveryVars, listVars, channelVars, observerVars>>

ScanTick(d) ==
    /\ now + d <= MaxScanTime
    /\ now' = now + d
    /\ lastOp' = Other
    /\ UNCHANGED <<scanVars, watcherVars, discoveryVars, listVars, channelVars, observerVars>>

ScanNext ==
    \/ \E manual \in ManualConfigs : Startup(manual)
    \/ \E force \in BOOLEAN : Scan(force)
    \/ \E statusFails, commitFails \in SUBSET RepoIds : Detailed(statusFails, commitFails)
    \/ \E ids \in SUBSET RepoIds : DiskChange(ids)
    \/ \E d \in ScanDelays : ScanTick(d)

ScanSpec == Init /\ [][ScanNext]_vars

\* C30: right after the initial scan of main, and right after a forced
\* rescan, the watched set is the set of the repositories of the scan result.
C30_WatcherReconciled ==
    lastOp.op \in {"startup", "rescan"} => DOMAIN watchers = cachedRepos

\* The initial scan reconciles the watcher.
StartupReconciled == lastOp.op = "startup" => DOMAIN watchers = cachedRepos

\* A scan that is not forced answers from the cache for scanInterval.
CacheServed ==
    [][(started /\ Scan(FALSE) /\ cachedRepos # {} /\ now - lastScan < scanInterval)
          => cachedRepos' = cachedRepos /\ lastScan' = lastScan]_vars

\* The list and the set of the cache name the same repositories.
ListOfCache == cachedRepos = {DirOf(repoList[k].path) : k \in 1..Len(repoList)}

\* C31: the detailed list has an entry for every scanned repository: with
\* its status when the status and the latest commit were obtained, marked
\* 'status unavailable' when one of them failed.
C31_FailureSurfaced ==
    lastOp.op = "detailed" =>
        \A k \in 1..Len(repoList) :
            \E j \in 1..Len(lastOp.body) :
                /\ lastOp.body[j].id = repoList[k].id
                /\ lastOp.body[j].status =
                       IF DirOf(repoList[k].path) \in lastOp.failing THEN "unavailable"
                       ELSE "known"

\* A failure for one repository does not end the pass: the repositories
\* whose status was obtained are all returned, in the order of the scan.
OthersReturned ==
    lastOp.op = "detailed" =>
        /\ \A k \in 1..Len(repoList) :
               DirOf(repoList[k].path) \notin lastOp.failing =>
                   \E j \in 1..Len(lastOp.body) :
                       lastOp.body[j].id = repoList[k].id /\ lastOp.body[j].status = "known"
        /\ \A j \in 1..Len(lastOp.body) : DirOf(lastOp.body[j].path) \notin lastOp.failing

\* The repository whose status failed is left out of the answer.
FailingOmitted ==
    lastOp.op = "detailed" =>
        \A j \in 1..Len(lastOp.body) : DirOf(lastOp.body[j].path) \notin lastOp.failing

\* C40: the id of every entry of a scan result is the id generated from its
\* path, no two entries of a scan result have the same path or the same id,
\* and a path found again by a later scan has the id it had.
C40_Inv ==
    \A i, j \in 1..Len(repoList) :
        /\ repoList[i].id = generateRepoId(repoList[i].path)
        /\ i # j => repoList[i].path # repoList[j].path /\ repoList[i].id # repoList[j].id

C40_Step ==
    \A i \in 1..Len(repoList) : \A j \in 1..Len(repoList') :
        repoList[i].path = repoList'[j].path => repoList[i].id = repoList'[j].id

C40_IdsOfPaths == []C40_Inv /\ [][C40_Step]_vars

\* A forced rescan has found two repositories under the scan paths, one of
\* them configured manually as well, and the list has changed since the
\* scan before.
C40_Witness ==
    /\ lastOp.op = "rescan"
    /\ Len(repoList) >= 2
    /\ \E k \in 1..Len(manualRepos) : \E r \in disk : manualRepos[k] = PathOf(r)

====
